---- MODULE Spec2Model ----
(***************************************************************************)
(* LinuxAgent (xuwwenke/LA): the command interpretation and execution      *)
(* pipeline of src/src/agent.py and src/src/command_executor.py.           *)
(*                                                                         *)
(* A Python str is a sequence of characters; a character is a one-letter   *)
(* TLA+ string.  A CJK character, and the backtick, is written by its code *)
(* point ("U521B", "U0060").                                               *)
(***************************************************************************)
EXTENDS Integers, Sequences, FiniteSets, TLC

\* ------------------------------------------------------------------------
\* Python str operations, as the code uses them
\* ------------------------------------------------------------------------

\* str.isspace() characters that occur in the modelled strings
Whitespace == {" ", "\t", "\n"}

\* s.startswith(p)
StartsWith(s, p) == Len(p) <= Len(s) /\ SubSeq(s, 1, Len(p)) = p

\* s.endswith(p)
EndsWith(s, p) == Len(p) <= Len(s) /\ SubSeq(s, Len(s) - Len(p) + 1, Len(s)) = p

\* p occurs in s at 1-based position i
OccursAt(s, p, i) == i >= 1 /\ i + Len(p) - 1 <= Len(s) /\ SubSeq(s, i, i + Len(p) - 1) = p

\* p in s
Contains(s, p) == \E i \in 1..(Len(s) - Len(p) + 1) : OccursAt(s, p, i)

\* the least 1-based position >= from where p occurs in s, 0 when there is none
FindFrom(s, p, from) ==
    LET R == from..(Len(s) - Len(p) + 1)
    IN  IF \E i \in R : OccursAt(s, p, i)
        THEN CHOOSE i \in R : OccursAt(s, p, i) /\ \A j \in from..(i - 1) : ~OccursAt(s, p, j)
        ELSE 0

\* the least position >= from of s holding a character in (member) or outside
\* (~member) the set chars, 0 when there is none
FirstChar(s, from, chars, member) ==
    IF \E k \in from..Len(s) : (s[k] \in chars) = member
    THEN CHOOSE k \in from..Len(s) :
             /\ (s[k] \in chars) = member
             /\ \A j \in from..(k - 1) : (s[j] \in chars) # member
    ELSE 0

\* the greatest position of s holding a character in / outside chars, 0 when none
LastChar(s, chars, member) ==
    IF \E k \in 1..Len(s) : (s[k] \in chars) = member
    THEN CHOOSE k \in 1..Len(s) :
             /\ (s[k] \in chars) = member
             /\ \A j \in (k + 1)..Len(s) : (s[j] \in chars) # member
    ELSE 0

\* s.count(p): non-overlapping occurrences, scanned from the left (p non-empty)
RECURSIVE CountFrom(_, _, _)
CountFrom(s, p, from) ==
    LET i == FindFrom(s, p, from)
    IN  IF i = 0 THEN 0 ELSE 1 + CountFrom(s, p, i + Len(p))

Count(s, p) == CountFrom(s, p, 1)

\* s.strip()
Strip(s) ==
    LET a == FirstChar(s, 1, Whitespace, FALSE)
    IN  IF a = 0 THEN <<>> ELSE SubSeq(s, a, LastChar(s, Whitespace, FALSE))

\* s.split(sep): the pieces between the non-overlapping occurrences of sep
RECURSIVE SplitFrom(_, _, _)
SplitFrom(s, sep, from) ==
    LET i == FindFrom(s, sep, from)
    IN  IF i = 0 THEN <<SubSeq(s, from, Len(s))>>
        ELSE <<SubSeq(s, from, i - 1)>> \o SplitFrom(s, sep, i + Len(sep))

SplitOn(s, sep) == SplitFrom(s, sep, 1)

\* s.split(sep, maxsplit)
RECURSIVE SplitMax(_, _, _, _)
SplitMax(s, sep, from, maxsplit) ==
    LET i == FindFrom(s, sep, from)
    IN  IF i = 0 \/ maxsplit = 0 THEN <<SubSeq(s, from, Len(s))>>
        ELSE <<SubSeq(s, from, i - 1)>> \o SplitMax(s, sep, i + Len(sep), maxsplit - 1)

\* s.split(): the maximal runs of non-whitespace characters
RECURSIVE WordsFrom(_, _)
WordsFrom(s, from) ==
    LET a == FirstChar(s, from, Whitespace, FALSE)
    IN  IF a = 0 THEN <<>>
        ELSE LET stop == FirstChar(s, a, Whitespace, TRUE)
                 b == IF stop = 0 THEN Len(s) + 1 ELSE stop
             IN  <<SubSeq(s, a, b - 1)>> \o WordsFrom(s, b)

Words(s) == WordsFrom(s, 1)

\* str.lower() on the letters that occur in the modelled strings
UpperCase == {"B", "C", "D", "E", "H", "I", "L", "M", "N", "Q", "T", "U", "X", "Y"}

LowerChar(c) ==
    CASE c = "B" -> "b" [] c = "C" -> "c" [] c = "D" -> "d" [] c = "E" -> "e"
      [] c = "H" -> "h" [] c = "I" -> "i" [] c = "L" -> "l" [] c = "M" -> "m"
      [] c = "N" -> "n" [] c = "Q" -> "q" [] c = "T" -> "t" [] c = "U" -> "u"
      [] c = "X" -> "x" [] c = "Y" -> "y"

Lower(s) == [i \in 1..Len(s) |-> IF s[i] \in UpperCase THEN LowerChar(s[i]) ELSE s[i]]

\* sep.join(parts)
RECURSIVE Join(_, _)
Join(parts, sep) ==
    IF parts = <<>> THEN <<>>
    ELSE IF Len(parts) = 1 THEN parts[1]
    ELSE parts[1] \o sep \o Join(Tail(parts), sep)

\* ------------------------------------------------------------------------
\* CommandExecutor (src/src/command_executor.py)
\* ------------------------------------------------------------------------

\* CommandExecutor.interactive_commands, the list the orchestrator reads
interactive_commands ==
    <<
        <<"v","i","m">>, <<"v","i">>, <<"n","a","n","o">>,
        <<"e","m","a","c","s">>, <<"l","e","s","s">>, <<"m","o","r","e">>,
        <<"t","o","p">>, <<"h","t","o","p">>, <<"m","y","s","q","l">>,
        <<"p","s","q","l">>, <<"s","q","l","i","t","e","3">>, <<"p","y","t","h","o","n">>,
        <<"i","p","y","t","h","o","n">>, <<"b","a","s","h">>, <<"s","h">>,
        <<"z","s","h">>, <<"s","s","h">>, <<"t","e","l","n","e","t">>,
        <<"f","t","p">>, <<"s","f","t","p">>
    >>

\* the local list of _is_interactive_command
is_interactive_lexicon ==
    <<
        <<"v","i","m">>, <<"v","i">>, <<"n","a","n","o">>,
        <<"e","m","a","c","s">>, <<"l","e","s","s">>, <<"m","o","r","e">>,
        <<"t","o","p">>, <<"h","t","o","p">>, <<"w","a","t","c","h">>,
        <<"t","a","i","l"," ","-","f">>, <<"m","y","s","q","l">>, <<"p","s","q","l">>,
        <<"t","e","l","n","e","t">>, <<"s","s","h">>, <<"p","y","t","h","o","n">>,
        <<"i","p","y","t","h","o","n">>, <<"b","a","s","h">>, <<"s","h">>,
        <<"z","s","h">>, <<"k","s","h">>, <<"c","s","h">>,
        <<"f","i","s","h">>
    >>

pkg_managers ==
    <<
        <<"d","n","f">>, <<"y","u","m">>, <<"a","p","t">>,
        <<"a","p","t","-","g","e","t">>, <<"p","a","c","m","a","n">>, <<"z","y","p","p","e","r">>
    >>

pkg_operations == <<<<"u","p","d","a","t","e">>, <<"u","p","g","r","a","d","e">>, <<"i","n","s","t","a","l","l">>>>

SeqToSet(q) == {q[i] : i \in 1..Len(q)}

\* f"命令 '{blocked}' 已被禁止执行"
BlockedReason(blocked) ==
    <<"U547D","U4EE4"," ","'">> \o blocked
        \o <<"'"," ","U5DF2","U88AB","U7981","U6B62","U6267","U884C">>

\* f"命令包含潜在危险操作 '{pattern}'"
PatternReason(pattern) ==
    <<"U547D","U4EE4","U5305","U542B","U6F5C","U5728","U5371","U9669","U64CD","U4F5C"," ","'">>
        \o pattern \o <<"'">>

\* a blocked-command test that drops the startswith alternative
BlockedMatches_exact(command, blocked) == Strip(command) = blocked

\* a confirm-pattern test that looks at the start of the command only
PatternMatches_prefix(command, pattern) == StartsWith(command, pattern)

\* the test of the blocked-command loop for one token
BlockedMatches(command, blocked) ==
    Strip(command) = blocked \/ StartsWith(Strip(command), blocked \o <<" ">>)

\* the test of the confirm-pattern loop for one pattern
PatternMatches(command, pattern) == Contains(command, pattern)

\* an is_command_safe that runs the confirm-pattern loop before the
\* blocked-command loop
is_command_safe_patterns_first(security, command) ==
    LET bl == security.blocked_commands
        cp == security.confirm_patterns
    IN  IF \E i \in 1..Len(cp) : PatternMatches(command, cp[i])
        THEN [safe |-> FALSE,
              reason |-> PatternReason(cp[CHOOSE i \in 1..Len(cp) :
                             /\ PatternMatches(command, cp[i])
                             /\ \A j \in 1..(i - 1) : ~PatternMatches(command, cp[j])])]
        ELSE IF \E i \in 1..Len(bl) : BlockedMatches(command, bl[i])
        THEN [safe |-> FALSE,
              reason |-> BlockedReason(bl[CHOOSE i \in 1..Len(bl) :
                             /\ BlockedMatches(command, bl[i])
                             /\ \A j \in 1..(i - 1) : ~BlockedMatches(command, bl[j])])]
        ELSE [safe |-> TRUE, reason |-> <<>>]

\* is_command_safe: the first blocked token that matches, else the first
\* confirm pattern that occurs, else safe
is_command_safe(security, command) ==
    LET bl == security.blocked_commands
        cp == security.confirm_patterns
    IN  IF \E i \in 1..Len(bl) : BlockedMatches(command, bl[i])
        THEN [safe |-> FALSE,
              reason |-> BlockedReason(bl[CHOOSE i \in 1..Len(bl) :
                             /\ BlockedMatches(command, bl[i])
                             /\ \A j \in 1..(i - 1) : ~BlockedMatches(command, bl[j])])]
        ELSE IF \E i \in 1..Len(cp) : PatternMatches(command, cp[i])
        THEN [safe |-> FALSE,
              reason |-> PatternReason(cp[CHOOSE i \in 1..Len(cp) :
                             /\ PatternMatches(command, cp[i])
                             /\ \A j \in 1..(i - 1) : ~PatternMatches(command, cp[j])])]
        ELSE [safe |-> TRUE, reason |-> <<>>]

\* _get_command_timeout had it tested the separators before the package managers
_get_command_timeout_separators_first(command) ==
    IF Count(command, <<"&","&">>) > 2 \/ Count(command, <<";">>) > 2
    THEN 300
    ELSE IF \E i \in 1..Len(pkg_managers), j \in 1..Len(pkg_operations) :
                Contains(command, pkg_managers[i] \o <<" ">> \o pkg_operations[j])
    THEN 600
    ELSE 120

\* _get_command_timeout
_get_command_timeout(command) ==
    IF \E i \in 1..Len(pkg_managers) :
           \/ Contains(command, pkg_managers[i] \o <<" ","u","p","d","a","t","e">>)
           \/ Contains(command, pkg_managers[i] \o <<" ","u","p","g","r","a","d","e">>)
           \/ Contains(command, pkg_managers[i] \o <<" ","i","n","s","t","a","l","l">>)
    THEN 600
    ELSE IF Count(command, <<"&","&">>) > 2 \/ Count(command, <<";">>) > 2
    THEN 300
    ELSE 120

\* command.split()[0] of a non-empty command without a word raises IndexError
is_interactive_raises(command) == command # <<>> /\ Words(command) = <<>>

\* an _is_interactive_command that looks at the first word only
_is_interactive_command_first_word(command) ==
    LET first_word == IF command # <<>> /\ Words(command) # <<>>
                      THEN Words(command)[1] ELSE <<>>
    IN  first_word \in SeqToSet(is_interactive_lexicon)

\* _is_interactive_command
_is_interactive_command(command) ==
    LET first_word == IF command # <<>> /\ Words(command) # <<>>
                      THEN Words(command)[1] ELSE <<>>
    IN  \/ first_word \in SeqToSet(is_interactive_lexicon)
        \/ \E i \in 1..Len(is_interactive_lexicon) :
               Contains(command, is_interactive_lexicon[i])

\* ------------------------------------------------------------------------
\* Agent: the pure helpers of src/src/agent.py
\* ------------------------------------------------------------------------

\* Characters that are neither \w nor \s in the modelled strings
Punctuation ==
    {"/", ".", "-", ">", "<", "&", ";", "|", "'", "U0060", "*", "#", ":", "=", "$", "~",
     "!", "?", ",", "(", ")", "+", "@", "%"}

IsSpace(c) == c \in Whitespace
IsWord(c) == c \notin Whitespace /\ c \notin Punctuation

\* the end (exclusive, 1-based) of the longest run of whitespace from i
WsEnd(s, i) ==
    LET stop == FirstChar(s, i, Whitespace, FALSE)
    IN  IF stop = 0 THEN Len(s) + 1 ELSE stop

\* the end (exclusive) of the longest run of [^\s] from i
NonWsEnd(s, i) ==
    LET stop == FirstChar(s, i, Whitespace, TRUE)
    IN  IF stop = 0 THEN Len(s) + 1 ELSE stop

\* the end (exclusive) of the longest run of \w from i
WordEnd(s, i) ==
    LET stop == FirstChar(s, i, Whitespace \cup Punctuation, TRUE)
    IN  IF stop = 0 THEN Len(s) + 1 ELSE stop

\* the end (exclusive) of the longest run of [^\s;|&] from i
PathEnd(s, i) ==
    LET stop == FirstChar(s, i, Whitespace \cup {";", "|", "&"}, TRUE)
    IN  IF stop = 0 THEN Len(s) + 1 ELSE stop

\* the reserved verbs of _handle_special_commands; "none" when it returns False
special_kind(user_input) ==
    LET low == Lower(user_input)
    IN  IF low \in {<<"e","x","i","t">>, <<"q","u","i","t">>, <<"b","y","e">>} THEN "quit"
        ELSE IF low = <<"h","e","l","p">> THEN "help"
        ELSE IF low = <<"c","l","e","a","r">> THEN "clear"
        ELSE IF low = <<"h","i","s","t","o","r","y">> THEN "history"
        ELSE IF low = <<"c","o","n","f","i","g">> THEN "config"
        ELSE IF StartsWith(low, <<"e","d","i","t"," ">>) THEN "edit"
        ELSE "none"

\* the edit verb: parts = user_input.split(" ", 2)
edit_file_path(user_input) ==
    LET parts == SplitMax(user_input, <<" ">>, 1, 2)
    IN  IF Len(parts) > 1 THEN parts[2] ELSE <<>>

edit_editor(user_input) ==
    LET parts == SplitMax(user_input, <<" ">>, 1, 2)
    IN  IF Len(parts) > 2 THEN parts[3] ELSE <<"v","i","m">>

simple_commands ==
    {
        <<"l","s">>, <<"p","w","d">>, <<"c","d">>, <<"c","a","t">>,
        <<"e","c","h","o">>, <<"m","k","d","i","r">>, <<"t","o","u","c","h">>, <<"c","p">>,
        <<"m","v">>, <<"r","m">>, <<"p","s">>, <<"d","f">>,
        <<"d","u">>
    }

\* the test of the trivial fast path
is_simple_command(user_input) ==
    Words(user_input) # <<>> /\ Words(user_input)[1] \in simple_commands

\* _is_complex_command had it only counted the separators
_is_complex_command_counts_only(command) ==
    \/ Count(command, <<"&","&">>) > 2
    \/ Count(command, <<";">>) > 2

\* _is_complex_command
_is_complex_command(command) ==
    \/ Count(command, <<"&","&">>) > 2
    \/ Count(command, <<";">>) > 2
    \/ \E i \in 1..Len(pkg_managers), j \in 1..Len(pkg_operations) :
           Contains(command, pkg_managers[i] \o <<" ">> \o pkg_operations[j])

\* _split_complex_command
_split_complex_command(command) ==
    IF Contains(command, <<"&","&">>)
    THEN LET p == SplitOn(command, <<"&","&">>) IN [k \in 1..Len(p) |-> Strip(p[k])]
    ELSE IF Contains(command, <<";">>)
    THEN LET p == SplitOn(command, <<";">>) IN [k \in 1..Len(p) |-> Strip(p[k])]
    ELSE <<command>>

\* no "\n" in s[a..b-1]: what "." may match
NoNewline(s, a, b) == \A k \in a..(b - 1) : s[k] # "\n"

web_page_verbs ==
    {<<"U521B","U5EFA">>, <<"U5236","U4F5C">>, <<"U5F00","U53D1">>, <<"U7F16","U5199">>}

web_page_nouns ==
    {<<"U7F51","U9875">>, <<"U9875","U9762">>, <<"H","T","M","L">>, <<"h","t","m","l">>,
     <<"U767B","U5F55","U9875">>, <<"U6CE8","U518C","U9875">>}

\* re.search(r'<verb>.*(?:<noun>|...)', user_input) for one of web_page_patterns
MatchesWebPage(s) ==
    \E v \in web_page_verbs :
        \E i \in 1..Len(s) :
            /\ OccursAt(s, v, i)
            /\ \E n \in web_page_nouns :
                   \E j \in (i + Len(v))..Len(s) :
                       OccursAt(s, n, j) /\ NoNewline(s, i + Len(v), j)

\* re.search(r'保存到\s+([^\s]+)', user_input): group 1, <<>> without a match
SaveToAt(s, i) ==
    LET lit == <<"U4FDD","U5B58","U5230">>
    IN  /\ OccursAt(s, lit, i)
        /\ i + Len(lit) <= Len(s) /\ IsSpace(s[i + Len(lit)])
        /\ WsEnd(s, i + Len(lit)) <= Len(s)

SaveToPath(s) ==
    IF \E i \in 1..Len(s) : SaveToAt(s, i)
    THEN LET hit == CHOOSE i \in 1..Len(s) :
                        SaveToAt(s, i) /\ \A j \in 1..(i - 1) : ~SaveToAt(s, j)
             b == WsEnd(s, hit + 3)
         IN  SubSeq(s, b, NonWsEnd(s, b) - 1)
    ELSE <<>>

\* _parse_create_edit_request; <<>> stands for None
_parse_create_edit_request(user_input) ==
    IF ~MatchesWebPage(user_input) THEN <<>>
    ELSE LET low == Lower(user_input)
             file_path ==
                 IF Contains(low, <<"n","g","i","n","x">>)
                 THEN <<"/","u","s","r","/","s","h","a","r","e","/","n","g","i","n","x","/","h","t","m","l","/","i","n","d","e","x",".","h","t","m","l">>
                 ELSE IF SaveToPath(user_input) # <<>> THEN SaveToPath(user_input)
                 ELSE <<"/","v","a","r","/","w","w","w","/","h","t","m","l","/","i","n","d","e","x",".","h","t","m","l">>
             editor == IF Contains(low, <<"n","a","n","o">>) THEN <<"n","a","n","o">>
                       ELSE IF Contains(low, <<"e","m","a","c","s">>) THEN <<"e","m","a","c","s">>
                       ELSE <<"v","i","m">>
         IN  <<"s","u","d","o"," ">> \o editor \o <<" ">> \o file_path

NoMatch == [ok |-> FALSE, at |-> 0, editor |-> <<>>, file_path |-> <<>>]

\* the leftmost of the matches in M, NoMatch when there is none
Leftmost(M) ==
    IF \E m \in M : m.ok
    THEN CHOOSE m \in M : m.ok /\ \A n \in M : n.ok => m.at <= n.at
    ELSE NoMatch

\* r'<v1>\s+(\w+)\s+<v2>\s+([^\s]+)(\s+文件)?' matched at position i, read left
\* to right: the verb v1 at i, the editor word b..c-1, the verb v2 at d, the
\* path from f
EditorFirstPath(s, i, b, c, f) ==
    IF f > Len(s) THEN NoMatch
    ELSE [ok |-> TRUE, at |-> i, editor |-> SubSeq(s, b, c - 1),
          file_path |-> SubSeq(s, f, NonWsEnd(s, f) - 1)]

EditorFirstVerb(s, v2, i, b, c, d) ==
    IF OccursAt(s, v2, d) /\ d + Len(v2) <= Len(s) /\ IsSpace(s[d + Len(v2)])
    THEN EditorFirstPath(s, i, b, c, WsEnd(s, d + Len(v2)))
    ELSE NoMatch

EditorFirstWord(s, v2, i, b, c) ==
    IF c <= Len(s) /\ IsSpace(s[c]) THEN EditorFirstVerb(s, v2, i, b, c, WsEnd(s, c))
    ELSE NoMatch

EditorFirstEditor(s, v2, i, b) ==
    IF b <= Len(s) /\ IsWord(s[b]) THEN EditorFirstWord(s, v2, i, b, WordEnd(s, b))
    ELSE NoMatch

EditorFirstAt(s, v1, v2, i) ==
    IF OccursAt(s, v1, i) /\ i + Len(v1) <= Len(s) /\ IsSpace(s[i + Len(v1)])
    THEN EditorFirstEditor(s, v2, i, WsEnd(s, i + Len(v1)))
    ELSE NoMatch

\* re.search of edit_patterns[0] and edit_patterns[1]: the leftmost match
EditorFirst(s, v1, v2) == Leftmost({EditorFirstAt(s, v1, v2, i) : i \in 1..Len(s)})

\* r'编辑\s+([^\s]+)(\s+文件)?(\s+用\s+(\w+))?' matched at position i, read left
\* to right: the path b..c-1, the optional word 文件 ending before c2, the
\* optional editor word from g (0 when the group does not match)
PathFirstResult(s, i, b, c, g) ==
    [ok |-> TRUE, at |-> i,
     editor |-> IF g # 0 /\ g <= Len(s) /\ IsWord(s[g]) THEN SubSeq(s, g, WordEnd(s, g) - 1)
                ELSE <<"v","i","m">>,
     file_path |-> SubSeq(s, b, c - 1)]

PathFirstWith(s, i, b, c, c2, d) ==
    PathFirstResult(s, i, b, c,
        IF d > c2 /\ OccursAt(s, <<"U7528">>, d) /\ d + 1 <= Len(s) /\ IsSpace(s[d + 1])
        THEN WsEnd(s, d + 1) ELSE 0)

PathFirstFile(s, i, b, c, c2) == PathFirstWith(s, i, b, c, c2, WsEnd(s, c2))

PathFirstSuffix(s, i, b, c, w) ==
    PathFirstFile(s, i, b, c,
        IF c <= Len(s) /\ OccursAt(s, <<"U6587","U4EF6">>, w) THEN w + 2 ELSE c)

PathFirstPath(s, i, b, c) == PathFirstSuffix(s, i, b, c, WsEnd(s, c))

PathFirstStart(s, i, b) ==
    IF b > Len(s) THEN NoMatch ELSE PathFirstPath(s, i, b, NonWsEnd(s, b))

PathFirstAt(s, i) ==
    IF OccursAt(s, <<"U7F16","U8F91">>, i) /\ i + 2 <= Len(s) /\ IsSpace(s[i + 2])
    THEN PathFirstStart(s, i, WsEnd(s, i + 2))
    ELSE NoMatch

PathFirst(s) == Leftmost({PathFirstAt(s, i) : i \in 1..Len(s)})

editors == {<<"v","i","m">>, <<"v","i">>, <<"n","a","n","o">>, <<"e","m","a","c","s">>}

\* the command a matched edit pattern yields; <<>> when the pattern does not
\* match or names an editor outside the list
EditorCommand(m) ==
    IF m.ok /\ m.editor \in editors THEN m.editor \o <<" ">> \o m.file_path ELSE <<>>

\* the first non-empty string of the sequence q, <<>> when there is none
FirstNonEmpty(q) ==
    IF \E k \in 1..Len(q) : q[k] # <<>>
    THEN q[CHOOSE k \in 1..Len(q) : q[k] # <<>> /\ \A j \in 1..(k - 1) : q[j] = <<>>]
    ELSE <<>>

\* _parse_interactive_command; <<>> stands for None
_parse_interactive_command(user_input) ==
    FirstNonEmpty(<<
        EditorCommand(EditorFirst(user_input, <<"U4F7F","U7528">>, <<"U7F16","U8F91">>)),
        EditorCommand(EditorFirst(user_input, <<"U7528">>, <<"U6253","U5F00">>)),
        EditorCommand(PathFirst(user_input)),
        IF \E k \in 1..Len(interactive_commands) :
               \/ StartsWith(user_input, interactive_commands[k] \o <<" ">>)
               \/ user_input = interactive_commands[k]
        THEN user_input ELSE <<>> >>)

\* re.search(r'<head>.+\.html', s), and with a middle: r'<head>.* > .+\.html'
HtmlAfter(s, from) ==
    \E k \in (from + 1)..Len(s) :
        OccursAt(s, <<".","h","t","m","l">>, k) /\ NoNewline(s, from, k)

RedirectToHtml(s, head) ==
    \E i \in 1..Len(s) :
        /\ OccursAt(s, head, i)
        /\ \E j \in (i + Len(head))..Len(s) :
               /\ OccursAt(s, <<" ",">"," ">>, j)
               /\ NoNewline(s, i + Len(head), j)
               /\ HtmlAfter(s, j + 3)

\* _is_file_creation_command
_is_file_creation_command(command) ==
    \/ RedirectToHtml(command, <<"e","c","h","o"," ">>)
    \/ \E i \in 1..Len(command) :
           OccursAt(command, <<"c","a","t"," ",">"," ">>, i) /\ HtmlAfter(command, i + 6)
    \/ \E i \in 1..Len(command) :
           OccursAt(command, <<"t","o","u","c","h"," ">>, i) /\ HtmlAfter(command, i + 6)
    \/ RedirectToHtml(command, <<"p","r","i","n","t","f"," ">>)

\* re.search(r'<head>([^\s;|&]+)', command): group 1, <<>> without a match
PathAfterAt(s, head, i) ==
    OccursAt(s, head, i) /\ PathEnd(s, i + Len(head)) > i + Len(head)

PathAfter(s, head) ==
    IF \E i \in 1..Len(s) : PathAfterAt(s, head, i)
    THEN LET hit == CHOOSE i \in 1..Len(s) :
                        PathAfterAt(s, head, i) /\ \A j \in 1..(i - 1) : ~PathAfterAt(s, head, j)
         IN  SubSeq(s, hit + Len(head), PathEnd(s, hit + Len(head)) - 1)
    ELSE <<>>

\* _extract_file_path; <<>> stands for None
_extract_file_path(command) ==
    IF PathAfter(command, <<">"," ">>) # <<>> THEN PathAfter(command, <<">"," ">>)
    ELSE PathAfter(command, <<"t","o","u","c","h"," ">>)

\* _get_preferred_editor; environ is [set, value] for os.environ's EDITOR
_get_preferred_editor(environ) ==
    IF environ.set /\ \E ed \in editors : Contains(environ.value, ed)
    THEN environ.value
    ELSE <<"v","i","m">>

\* file_path.endswith('.html') and a login or register page
IsLoginPage(file_path) ==
    /\ EndsWith(file_path, <<".","h","t","m","l">>)
    /\ \/ Contains(Lower(file_path), <<"l","o","g","i","n">>)
       \/ Contains(file_path, <<"U767B","U5F55">>)
       \/ Contains(file_path, <<"U6CE8","U518C">>)

\* parts[-1] and parts[-2] of _execute_edit_operation
LastWord(command) == Words(command)[Len(Words(command))]

edit_operation_editor(command) ==
    LET parts == Words(command)
    IN  IF Len(parts) > 1 THEN parts[Len(parts) - 1] ELSE <<"v","i","m">>

\* editor.split('/')[-1]
Basename(editor) == LET p == SplitOn(editor, <<"/">>) IN p[Len(p)]

\* any(editor in command.split()[0] for editor in ["vim", "vi", "nano", "emacs"])
starts_with_editor(command) == \E ed \in editors : Contains(Words(command)[1], ed)

\* os.path.dirname(file_path)
Dirname(p) ==
    LET slash == LastChar(p, {"/"}, TRUE)
    IN  IF slash = 0 THEN <<>>
        ELSE LET head == SubSeq(p, 1, slash)
                 keep == LastChar(head, {"/"}, FALSE)
             IN  IF keep = 0 THEN head ELSE SubSeq(head, 1, keep)

\* str(n) for n >= 0
Digit(d) == CASE d = 0 -> "0" [] d = 1 -> "1" [] d = 2 -> "2" [] d = 3 -> "3"
              [] d = 4 -> "4" [] d = 5 -> "5" [] d = 6 -> "6" [] d = 7 -> "7"
              [] d = 8 -> "8" [] OTHER -> "9"

RECURSIVE Str(_)
Str(n) == IF n < 10 THEN <<Digit(n)>> ELSE Str(n \div 10) \o <<Digit(n % 10)>>

\* f"命令执行超时 (超过 {timeout}秒)"
TimeoutMessage(timeout) ==
    <<"U547D","U4EE4","U6267","U884C","U8D85","U65F6"," ","(","U8D85","U8FC7"," ">>
        \o Str(timeout) \o <<"U79D2",")">>

\* the cap of process_user_input on the oracle's command
MaxCommandLen == 1000

suspicious_starts ==
    {<<"#","#","#">>, <<"#","#">>, <<"#">>, <<"U89E3","U91CA",":">>,
     <<"U547D","U4EE4","U76EE","U7684",":">>, <<"U5B89","U5168","U6027",":">>,
     <<"U662F","U5426","U662F","U5371","U9669","U547D","U4EE4",":">>}

\* ------------------------------------------------------------------------
\* DeepSeekAPI (src/src/deepseek_api.py): the normaliser of the oracle's reply
\* ------------------------------------------------------------------------

\* the index of the first TRUE of a sequence of booleans, 0 when there is none
FirstTrue(bs) ==
    IF \E k \in 1..Len(bs) : bs[k]
    THEN CHOOSE k \in 1..Len(bs) : bs[k] /\ \A j \in 1..(k - 1) : ~bs[j]
    ELSE 0

\* [line.strip() for line in lines]
StripAll(lines) == [k \in 1..Len(lines) |-> Strip(lines[k])]

\* re.sub of a pattern that is an alternation of single characters (and of
\* their doubles): every character of chars is removed
RECURSIVE Remove(_, _)
Remove(s, chars) ==
    IF s = <<>> THEN <<>>
    ELSE (IF Head(s) \in chars THEN <<>> ELSE <<Head(s)>>) \o Remove(Tail(s), chars)

\* line.split(":", 1)[1].strip(), for a line that holds a colon
AfterColon(line) == Strip(SubSeq(line, FindFrom(line, <<":">>, 1) + 1, Len(line)))

fence == <<"U0060","U0060","U0060">>
closing_fence == <<"\n","U0060","U0060","U0060">>

\* (?:bash|shell)? tried at position i: the position after it
AfterLang(text, i) ==
    IF OccursAt(text, <<"b","a","s","h">>, i) THEN i + 4
    ELSE IF OccursAt(text, <<"s","h","e","l","l">>, i) THEN i + 5
    ELSE i

\* \s*\n(.*?)\n``` tried at position s: where group 1 starts, 0 when it fails.
\* The greedy \s* gives back whitespace until a newline follows it and a
\* closing fence is found behind that newline.
FenceBodyStart(text, s) ==
    LET C == {j \in s..(WsEnd(text, s) - 1) :
                 text[j] = "\n" /\ FindFrom(text, closing_fence, j + 1) # 0}
    IN  IF C = {} THEN 0 ELSE 1 + (CHOOSE j \in C : \A k \in C : k <= j)

\* command_pattern tried at position i
FenceAt(text, i) ==
    IF OccursAt(text, fence, i) THEN FenceBodyStart(text, AfterLang(text, i + 3)) ELSE 0

\* re.search(command_pattern, text, re.DOTALL): its group 1
command_match(text) ==
    IF \E i \in 1..Len(text) : FenceAt(text, i) # 0
    THEN LET i == CHOOSE i \in 1..Len(text) :
                      FenceAt(text, i) # 0 /\ \A k \in 1..(i - 1) : FenceAt(text, k) = 0
         IN  [found |-> TRUE,
              group |-> SubSeq(text, FenceAt(text, i),
                               FindFrom(text, closing_fence, FenceAt(text, i)) - 1)]
    ELSE [found |-> FALSE, group |-> <<>>]

comment_starts == {<<"#">>, <<"/","/">>, <<"/","*">>}

IsCodeLine(line) == line # <<>> /\ \A c \in comment_starts : ~StartsWith(line, c)

\* the command of a fenced block: its first line that is not a comment, else
\* its first line
FencedLine(command_lines, k) == IF k = 0 THEN command_lines[1] ELSE command_lines[k]

FencedCommand(command_lines) ==
    FencedLine(command_lines,
               FirstTrue([k \in 1..Len(command_lines) |-> IsCodeLine(command_lines[k])]))

command_labels ==
    {<<"U547D","U4EE4",":">>, <<"C","o","m","m","a","n","d",":">>,
     <<"U8981","U6267","U884C","U7684","U547D","U4EE4",":">>}

HasLabel(line, labels) == \E l \in labels : StartsWith(line, l)

command_prefixes ==
    {<<"l","s">>, <<"c","d">>, <<"g","r","e","p">>, <<"e","c","h","o">>, <<"c","a","t">>,
     <<"s","u","d","o">>, <<"a","p","t">>, <<"y","u","m">>, <<"d","n","f">>,
     <<"f","i","n","d">>, <<"p","s">>, <<"m","k","d","i","r">>}

\* a line that reads as a command: it starts with a known verb that ends the
\* line or is followed by a space or a dash
IsVerbLine(line) ==
    /\ line # <<>>
    /\ ~StartsWith(line, <<"#">>)
    /\ ~Contains(line, <<"U89E3","U91CA">>)
    /\ \E p \in command_prefixes :
          /\ StartsWith(line, p)
          /\ (Len(line) = Len(p) \/ line[Len(p) + 1] \in {" ", "-"})

NoCommand == [has |-> FALSE, command |-> <<>>]

\* the last strategy: a first line that starts with "$" or "#"
MarkerCommand(first_line) ==
    IF StartsWith(first_line, <<"$">>) \/ StartsWith(first_line, <<"#">>)
    THEN [has |-> TRUE, command |-> Strip(Tail(first_line))]
    ELSE NoCommand

\* the second strategy, then the last
VerbCommand(lines, k) ==
    IF k # 0 THEN [has |-> TRUE, command |-> lines[k]] ELSE MarkerCommand(lines[1])

\* the first strategy without a fence: a labelled line, then the others
LabelCommand(lines, k) ==
    IF k # 0
    THEN [has |-> TRUE, command |-> Remove(AfterColon(lines[k]), {"*", "U0060"})]
    ELSE VerbCommand(lines, FirstTrue([j \in 1..Len(lines) |-> IsVerbLine(lines[j])]))

UnfencedCommand(lines) ==
    LabelCommand(lines, FirstTrue([j \in 1..Len(lines) |-> HasLabel(lines[j], command_labels)]))

\* result["command"] after the extraction strategies of _parse_text_response
ExtractedCommand(text, m) ==
    IF m.found
    THEN [has |-> TRUE, command |-> FencedCommand(StripAll(SplitOn(Strip(m.group), <<"\n">>)))]
    ELSE UnfencedCommand(StripAll(SplitOn(text, <<"\n">>)))

explanation_labels ==
    {<<"U89E3","U91CA",":">>, <<"U8BF4","U660E",":">>,
     <<"E","x","p","l","a","n","a","t","i","o","n",":">>}

danger_line_labels == {<<"U5371","U9669",":">>, <<"D","a","n","g","e","r","o","u","s",":">>}

\* explanation_lines: the text behind an explanation label and the non-empty
\* lines that follow one, those of the danger verdict left out
RECURSIVE ExplanationLines(_, _, _)
ExplanationLines(lines, k, explanation_found) ==
    IF k > Len(lines) THEN <<>>
    ELSE IF HasLabel(lines[k], explanation_labels)
         THEN <<AfterColon(lines[k])>> \o ExplanationLines(lines, k + 1, TRUE)
         ELSE (IF explanation_found /\ lines[k] # <<>> /\ ~HasLabel(lines[k], danger_line_labels)
               THEN <<lines[k]>> ELSE <<>>)
              \o ExplanationLines(lines, k + 1, explanation_found)

\* [:：]
colons == {":", "UFF1A"}

\* (?:l1|l2|...)[:：] tried at position i: the position after the colon, 0 when
\* it fails (no two labels of one pattern start alike)
AfterLabel(text, i, labels) ==
    IF \E l \in labels : OccursAt(text, l, i) /\ i + Len(l) <= Len(text)
                         /\ text[i + Len(l)] \in colons
    THEN i + 1 + Len(CHOOSE l \in labels : OccursAt(text, l, i) /\ i + Len(l) <= Len(text)
                                           /\ text[i + Len(l)] \in colons)
    ELSE 0

\* re.search of (?:l1|l2|...)[:：]: the position after the colon of the leftmost
\* match, 0 when there is none
LabelFrom(text, labels, i) == IF i = 0 THEN 0 ELSE AfterLabel(text, i, labels)

SearchLabel(text, labels) ==
    LabelFrom(text, labels, FirstTrue([i \in 1..Len(text) |-> AfterLabel(text, i, labels) # 0]))

\* text[p:q], q = 0 standing for the end of the text
UpTo(text, p, q) == SubSeq(text, p, (IF q = 0 THEN Len(text) + 1 ELSE q) - 1)

\* \s*(.*?)(?:\n|$) from position a: group 1
LineValue(text, a) == UpTo(text, WsEnd(text, a), FindFrom(text, <<"\n">>, WsEnd(text, a)))

\* the least of two positions, 0 standing for none
Nearest(q1, q2) == IF q1 = 0 THEN q2 ELSE IF q2 = 0 THEN q1 ELSE IF q1 < q2 THEN q1 ELSE q2

\* \s*(.*?)(?:\n\n|\n#|\Z) from position a, with re.DOTALL: group 1
BlockFrom(text, p) ==
    UpTo(text, p, Nearest(FindFrom(text, <<"\n","\n">>, p), FindFrom(text, <<"\n","#">>, p)))

BlockValue(text, a) == BlockFrom(text, WsEnd(text, a))

purpose_labels ==
    {<<"U547D","U4EE4","U76EE","U7684">>, <<"U547D","U4EE4","U8BF4","U660E">>,
     <<"U76EE","U7684">>, <<"U8BF4","U660E">>}

segment_separators ==
    {fence, <<"U547D","U4EE4",":">>, <<"C","o","m","m","a","n","d",":">>}

SeparatorAt(text, i) == \E s \in segment_separators : OccursAt(text, s, i)

\* re.split(r"```|命令:|Command:", text) from position from
RECURSIVE SplitSegments(_, _)
SplitSegments(text, from) ==
    IF \E i \in from..Len(text) : SeparatorAt(text, i)
    THEN LET i == CHOOSE i \in from..Len(text) :
                      SeparatorAt(text, i) /\ \A j \in from..(i - 1) : ~SeparatorAt(text, j)
         IN  <<SubSeq(text, from, i - 1)>>
             \o SplitSegments(text, i + Len(CHOOSE s \in segment_separators : OccursAt(text, s, i)))
    ELSE <<SubSeq(text, from, Len(text))>>

NoText == [has |-> FALSE, value |-> <<>>]

\* the third source of the explanation: the segment behind the first fence or
\* command label, or the one behind it when that one is blank
SegmentExplanation(segments) ==
    IF Len(segments) > 1
    THEN [has |-> TRUE,
          value |-> IF Strip(segments[2]) = <<>> /\ Len(segments) > 2
                    THEN Strip(segments[3]) ELSE Strip(segments[2])]
    ELSE NoText

\* the second source: a purpose label anywhere in the text
PurposeExplanation(text, a) ==
    IF a # 0 THEN [has |-> TRUE, value |-> Strip(BlockValue(text, a))]
    ELSE SegmentExplanation(SplitSegments(text, 1))

\* result["explanation"] as _parse_text_response finds it
LinesExplanation(text, explanation_lines) ==
    IF explanation_lines # <<>> THEN [has |-> TRUE, value |-> Join(explanation_lines, <<" ">>)]
    ELSE PurposeExplanation(text, SearchLabel(text, purpose_labels))

FoundExplanation(text) ==
    LinesExplanation(text, ExplanationLines(StripAll(SplitOn(text, <<"\n">>)), 1, FALSE))

default_explanation ==
    <<"U6267","U884C","U6240","U8BF7","U6C42","U7684","U4EFB","U52A1","U3002">>

danger_labels == {<<"U5371","U9669">>, <<"U662F","U5426","U662F","U5371","U9669","U547D","U4EE4">>}

\* re.search(first pattern) or re.search(second pattern): the position after
\* the colon of the match that is used, 0 when both are None
EitherLabel(a, b) == IF a # 0 THEN a ELSE b

\* the verdict read from the text behind a danger label
ReadsDangerous(danger_text) ==
    /\ \/ Contains(danger_text, <<"U662F">>)
       \/ Contains(danger_text, <<"y","e","s">>)
       \/ Contains(danger_text, <<"t","r","u","e">>)
    /\ ~ \/ Contains(danger_text, <<"U5426">>)
         \/ Contains(danger_text, <<"n","o">>)
         \/ Contains(danger_text, <<"f","a","l","s","e">>)

\* result["dangerous"], False when no danger label is found
DangerAt(text, a) == IF a = 0 THEN FALSE ELSE ReadsDangerous(Strip(Lower(LineValue(text, a))))

\* dangerous_match: the position after the colon of the danger label, 0 when None
dangerous_match(text) ==
    EitherLabel(SearchLabel(text, danger_labels),
                SearchLabel(text, {<<"D","a","n","g","e","r","o","u","s">>}))

FoundDangerous(text) == DangerAt(text, dangerous_match(text))

reason_labels == {<<"U539F","U56E0">>, <<"U7406","U7531">>}

ReasonAt(text, a) == IF a = 0 THEN NoText ELSE [has |-> TRUE, value |-> Strip(LineValue(text, a))]

\* result["reason_if_dangerous"] as _parse_text_response finds it: the reason
\* is looked for only when a danger label was found
ReasonWhen(text, a) ==
    IF a = 0 THEN NoText
    ELSE ReasonAt(text, EitherLabel(SearchLabel(text, reason_labels),
                                    SearchLabel(text, {<<"R","e","a","s","o","n">>})))

FoundReason(text) == ReasonWhen(text, dangerous_match(text))

default_reason ==
    <<"U672A","U63D0","U4F9B","U5177","U4F53","U98CE","U9669","U539F","U56E0">>

\* the longest first line taken for the command when no strategy found one
MaxFirstLineLen == 100

\* the command when the strategies found none or an empty one
FirstLineCommand(first_line) ==
    IF Len(first_line) < MaxFirstLineLen THEN Strip(first_line) ELSE <<>>

FallbackCommand(text, c) ==
    IF ~c.has \/ c.command = <<>> THEN FirstLineCommand(SplitOn(text, <<"\n">>)[1])
    ELSE c.command

\* command[1:-1] when the command is wrapped in one kind of quote
Unquote(command) ==
    IF \/ StartsWith(command, <<"\"">>) /\ EndsWith(command, <<"\"">>)
       \/ StartsWith(command, <<"'">>) /\ EndsWith(command, <<"'">>)
    THEN SubSeq(command, 2, Len(command) - 1)
    ELSE command

\* the last step of _parse_text_response: markup and quotes are taken off
CleanCommand(command) == Strip(Unquote(Remove(command, {"U0060", "_", "*"})))

\* the dict _parse_text_response returns, from its parts
TextResult(command, explanation, dangerous, reason) ==
    IF reason.has
    THEN [command |-> command,
          explanation |-> IF explanation.has THEN explanation.value ELSE default_explanation,
          dangerous |-> dangerous, reason_if_dangerous |-> reason.value]
    ELSE IF dangerous
    THEN [command |-> command,
          explanation |-> IF explanation.has THEN explanation.value ELSE default_explanation,
          dangerous |-> dangerous, reason_if_dangerous |-> default_reason]
    ELSE [command |-> command,
          explanation |-> IF explanation.has THEN explanation.value ELSE default_explanation,
          dangerous |-> dangerous]

_parse_text_response(text) ==
    TextResult(CleanCommand(FallbackCommand(text, ExtractedCommand(text, command_match(text)))),
               FoundExplanation(text), FoundDangerous(text), FoundReason(text))

\* ------------------------------------------------------------------------
\* The environment: what the operator types, what the oracle replies, how a
\* child process ends
\* ------------------------------------------------------------------------

\* the number of turns process_user_input takes before only reserved verbs
\* and empty lines are typed
MaxTurns == 1

\* "ls " followed by MaxCommandLen letters: a line longer than the cap
LongCommand == <<"l","s"," ">> \o [k \in 1..MaxCommandLen |-> "a"]

\* lines handled in run() itself: an empty line and the reserved verbs
ReservedInputs ==
    {<<>>,
     <<"e","x","i","t">>, <<"B","y","e">>, <<"h","e","l","p">>,
     <<"c","l","e","a","r">>, <<"h","i","s","t","o","r","y">>,
     <<"c","o","n","f","i","g">>,
     <<"e","d","i","t"," ","/","t","m","p","/","a">>,       \* edit /tmp/a
     <<"e","d","i","t"," "," ","x">>,                       \* edit  x
     <<"e","d","i","t"," ","U521B","U5EFA","U7F51","U9875">>}

\* lines that reach process_user_input
TurnInputs ==
    {<<"l","s">>,
     <<"r","m"," ","-","r","f"," ","/","t","m","p","/","x">>,   \* rm -rf /tmp/x
     <<"c","a","t"," ","a",".","s","h">>,                       \* cat a.sh
     LongCommand,
     <<"U521B","U5EFA","U7F51","U9875">>,
     <<"U521B","U5EFA","n","g","i","n","x","U7F51","U9875">>,
     <<"U521B","U5EFA","U767B","U5F55","U9875"," ","U4FDD","U5B58","U5230"," ",
       "/","t","m","p","/","l","o","g","i","n",".","h","t","m","l">>,
     <<"v","i","m"," ","/","e","t","c","/","h","o","s","t","s">>,   \* vim /etc/hosts
     <<"f","t","p"," ","a">>,                                     \* ftp a
     <<"s","s","h"," ","h"," ","r","m"," ","-","r","f"," ","/">>,   \* ssh h rm -rf /
     <<"U7528"," ","n","a","n","o"," ","U6253","U5F00"," ",
       "/","v","a","r","/","w","w","w","/","a",".","h","t","m","l">>,
     <<"i","n","s","t","a","l","l"," ","n","g","i","n","x">>,     \* install nginx
     <<"e","d","i","t">>,                                         \* edit
     <<"c","a","t"," ","U521B","U5EFA","U7F51","U9875">>,
     <<"v","i","m"," ","U521B","U5EFA","U7F51","U9875">>}

Inputs == ReservedInputs \cup TurnInputs

cmd_df == <<"d","f"," ","-","h">>
cmd_apt ==
    <<"a","p","t"," ","u","p","d","a","t","e"," ","&","&"," ",
      "a","p","t"," ","i","n","s","t","a","l","l"," ","n","g","i","n","x">>
cmd_apt_rm_reboot ==
    <<"a","p","t"," ","u","p","d","a","t","e"," ","&","&"," ",
      "r","m"," ","-","r","f"," ","/","t","m","p","/","x"," ","&","&"," ",
      "r","e","b","o","o","t">>
cmd_rm == <<"r","m"," ","-","r","f"," ","/","t","m","p","/","x">>
cmd_vim == <<"v","i","m"," ","/","e","t","c","/","h","o","s","t","s">>
cmd_echo_html ==
    <<"e","c","h","o"," ","h","i"," ",">"," ",
      "/","v","a","r","/","w","w","w","/","h","t","m","l","/","i","n","d","e","x",".","h","t","m","l">>
cmd_prose == <<"#"," ","l","i","s","t"," ","f","i","l","e","s">>
cmd_apt_touch ==
    <<"a","p","t"," ","u","p","d","a","t","e"," ","&","&"," ",
      "t","o","u","c","h"," ","/","t","m","p","/","a",".","h","t","m","l">>
cmd_apt_top ==
    <<"a","p","t"," ","u","p","d","a","t","e"," ","&","&"," ","t","o","p">>
text_list == <<"l","i","s","t">>
text_risky == <<"r","i","s","k","y">>
text_fenced ==
    <<"U0060","U0060","U0060","b","a","s","h","\n","d","f"," ","-","h","\n",
      "U0060","U0060","U0060","\n",
      "U5371","U9669",":"," ","U662F","\n","U539F","U56E0",":"," ","r","i","s","k","y">>
text_title == <<"#","#"," ","l","i","s","t"," ","f","i","l","e","s">>
text_prose == <<"l","i","s","t"," ","f","i","l","e","s">>

\* what _call_deepseek_api hands back: an error, a response without a
\* message content, or a content that json.loads accepts (given by the object
\* it parses to) or rejects (given by its text)
Replies ==
    {[kind |-> "error"],
     [kind |-> "no_content"],
     [kind |-> "text", content |-> text_fenced],
     [kind |-> "text", content |-> text_title],
     [kind |-> "text", content |-> text_prose],
     [kind |-> "json", content |-> [command |-> cmd_df]],
     [kind |-> "json", content |-> [command |-> cmd_apt, explanation |-> text_list,
                                    dangerous |-> TRUE, reason_if_dangerous |-> text_risky]],
     [kind |-> "json", content |-> [command |-> cmd_apt_rm_reboot, explanation |-> text_list,
                                    dangerous |-> FALSE]],
     [kind |-> "json", content |-> [command |-> cmd_rm, dangerous |-> FALSE]],
     [kind |-> "json", content |-> [command |-> cmd_vim, explanation |-> text_list,
                                    dangerous |-> TRUE, reason_if_dangerous |-> text_risky]],
     [kind |-> "json", content |-> [command |-> LongCommand]],
     [kind |-> "json", content |-> [command |-> cmd_prose]],
     [kind |-> "json", content |-> [command |-> cmd_echo_html, dangerous |-> FALSE]],
     [kind |-> "json", content |-> [command |-> cmd_apt_touch, dangerous |-> FALSE]],
     [kind |-> "json", content |-> [command |-> cmd_apt_top, dangerous |-> FALSE]],
     [kind |-> "json", content |-> [command |-> <<" ">>]],
     [kind |-> "json", content |-> [explanation |-> text_list]]}

\* get_command_for_task had it cleaned the command of a parsed JSON object the
\* way _parse_text_response cleans the one it extracts
get_command_for_task_cleaned(reply) ==
    IF reply.kind \in {"error", "no_content"} THEN <<>>
    ELSE IF reply.kind = "json"
    THEN [k \in DOMAIN reply.content |->
             IF k = "command" THEN CleanCommand(reply.content[k]) ELSE reply.content[k]]
    ELSE _parse_text_response(reply.content)

\* get_command_for_task: {} on an API error or a KeyError, the parsed JSON
\* object as it is, else what _parse_text_response makes of the text
get_command_for_task(reply) ==
    IF reply.kind \in {"error", "no_content"} THEN <<>>
    ELSE IF reply.kind = "json" THEN reply.content
    ELSE _parse_text_response(reply.content)

\* dict.get(key, default)
Get(dict, key, default) == IF key \in DOMAIN dict THEN dict[key] ELSE default

\* the security section of the configuration
SecurityConfigs ==
    {[confirm_dangerous_commands |-> c,
      blocked_commands |-> <<<<"r","e","b","o","o","t">>>>,
      confirm_patterns |-> <<<<"r","m"," ","-","r","f">>>>] : c \in BOOLEAN}

\* os.environ's EDITOR
Environs == {[set |-> FALSE, value |-> <<>>], [set |-> TRUE, value |-> <<"n","a","n","o">>]}

\* ------------------------------------------------------------------------
\* State
\* ------------------------------------------------------------------------

VARIABLES
    pc,                  \* where run() / process_user_input is suspended
    security,            \* config.security
    environ,             \* os.environ's EDITOR
    history,             \* Agent.history
    events,              \* what the current turn has done so far, in order
    route,               \* the branch the current turn took
    user_input,          \* the line being handled
    command,             \* the command the turn resolved
    response,            \* what _call_deepseek_api returned to get_command_for_task
    result,              \* the dict returned by get_command_for_task
    explanation,         \* what process_user_input reads from it
    dangerous,
    reason_if_dangerous,
    shape,               \* how process_user_input classified the proposed command
    unsafe_reason,       \* locals of process_user_input
    needs_confirmation,
    is_interactive,
    commands,            \* locals of _execute_commands_sequence
    step,
    results,
    analyze_args,        \* what the oracle route hands to analyze_command_output
    child,               \* the child process being waited for
    returned             \* (stdout, stderr, return_code) of the last child

vars == <<pc, security, environ, history, events, route, user_input, command, response, result,
          explanation, dangerous, reason_if_dangerous, shape, unsafe_reason,
          needs_confirmation,
          is_interactive, commands, step, results, analyze_args,
          child, returned>>

NoChild == [cmd |-> <<>>, via |-> "none", timeout |-> 0]

\* no call of the oracle has returned in this turn
NoResponse == [kind |-> "none"]

\* no command has been classified in this turn
NoShape == [is_file_creation |-> FALSE, file_path |-> <<>>, is_complex_command |-> FALSE]

\* the classification of a command by process_user_input: the file-creation
\* test and the path it extracts, and, unless that route is taken, the
\* complexity test
ShapeOf(cmd) ==
    [is_file_creation |-> _is_file_creation_command(cmd),
     file_path |-> IF _is_file_creation_command(cmd) THEN _extract_file_path(cmd) ELSE <<>>,
     is_complex_command |-> /\ ~(_is_file_creation_command(cmd) /\ _extract_file_path(cmd) # <<>>)
                            /\ _is_complex_command(cmd)]

NoResult == [stdout |-> <<>>, stderr |-> <<>>, return_code |-> 0, how |-> "none"]

\* no batch analysis requested yet
NoArgs == [command |-> <<>>, stdout |-> <<>>, stderr |-> <<>>]

\* one entry of events
Ev(op, cmd, arg, n) == [op |-> op, cmd |-> cmd, arg |-> arg, step |-> n]

stdout_text == <<"o","k">>
stderr_text == <<"e","r","r">>

\* how a child started by execute_command / os.system can end: the triple
\* (stdout, stderr, return_code) the executor returns for it
Outcomes(c) ==
    IF c.via = "pipe"
    THEN {[stdout |-> stdout_text, stderr |-> <<>>, return_code |-> 0, how |-> "exit"],
          [stdout |-> <<>>, stderr |-> stderr_text, return_code |-> 2, how |-> "exit"],
          [stdout |-> <<>>, stderr |-> TimeoutMessage(c.timeout), return_code |-> 1,
           how |-> "timeout"],
          [stdout |-> <<>>, stderr |-> stderr_text, return_code |-> 1, how |-> "error"]}
    ELSE {[stdout |-> <<>>, stderr |-> <<>>, return_code |-> 0, how |-> "exit"],
          [stdout |-> <<>>, stderr |-> <<>>, return_code |-> 1, how |-> "exit"],
          [stdout |-> <<>>, stderr |-> stderr_text, return_code |-> 1, how |-> "error"]}

\* execute_command: the interactive path for what _is_interactive_command
\* matches, else Popen with pipes under a timeout
ExecVia(cmd) == IF _is_interactive_command(cmd) THEN "tty" ELSE "pipe"

execute_command_default_timeout(cmd) ==
    [cmd |-> cmd, via |-> ExecVia(cmd), timeout |-> IF ExecVia(cmd) = "pipe" THEN 120 ELSE 0]

execute_command(cmd) ==
    [cmd |-> cmd, via |-> ExecVia(cmd),
     timeout |-> IF ExecVia(cmd) = "pipe" THEN _get_command_timeout(cmd) ELSE 0]

\* the state of the file system execute_file_editor finds
FsScenarios ==
    {"mkdir_fails", "create_fails", "create_denied", "touch_fails", "read_only", "writable"}

\* the command execute_file_editor hands to _execute_interactive_command
editor_command(file_path, editor, fs) ==
    IF fs \in {"create_denied", "read_only"}
    THEN <<"s","u","d","o"," ">> \o editor \o <<" ">> \o file_path
    ELSE editor \o <<" ">> \o file_path

ResetLocals ==
    /\ command' = <<>>
    /\ response' = NoResponse
    /\ result' = <<>>
    /\ explanation' = <<>> /\ dangerous' = FALSE /\ reason_if_dangerous' = <<>>
    /\ shape' = NoShape
    /\ unsafe_reason' = <<>>
    /\ needs_confirmation' = FALSE
    /\ is_interactive' = FALSE
    /\ commands' = <<>>
    /\ step' = 0
    /\ results' = <<>>
    /\ analyze_args' = NoArgs

Init ==
    /\ pc = "Idle"
    /\ security \in SecurityConfigs
    /\ environ \in Environs
    /\ history = <<>>
    /\ events = <<>>
    /\ route = "none"
    /\ user_input = <<>>
    /\ command = <<>>
    /\ response = NoResponse
    /\ result = <<>>
    /\ explanation = <<>> /\ dangerous = FALSE /\ reason_if_dangerous = <<>>
    /\ shape = NoShape
    /\ unsafe_reason = <<>>
    /\ needs_confirmation = FALSE
    /\ is_interactive = FALSE
    /\ commands = <<>>
    /\ step = 0
    /\ results = <<>>
    /\ analyze_args = NoArgs
    /\ child = NoChild
    /\ returned = NoResult

\* ------------------------------------------------------------------------
\* Steps shared by several handlers; each sets pc', events' and child'
\* ------------------------------------------------------------------------

\* the handler returns and run() waits for the next line
ToIdle(evs) ==
    /\ pc' = "Idle"
    /\ events' = evs
    /\ child' = NoChild

\* executor.execute_command(cmd) is called and its child awaited at nextpc
StartExec(cmd, evs, nextpc, n) ==
    /\ pc' = nextpc
    /\ events' = Append(evs, Ev("execute_command", cmd, ExecVia(cmd), n))
    /\ child' = execute_command(cmd)

\* executor.execute_file_editor(file_path, editor), then the caller's report
BeginFileEditor(file_path, editor, fs, evs) ==
    IF fs = "mkdir_fails" /\ Dirname(file_path) = <<>>
    THEN FALSE      \* `if dir_path and ...`: without a directory part nothing is created
    ELSE IF fs \in {"mkdir_fails", "create_fails"}
    THEN ToIdle(Append(evs, Ev("show_error", file_path, fs, 0)))
    ELSE /\ pc' = "EditChild"
         /\ events' =
                (IF fs \in {"create_denied", "touch_fails"}
                 THEN Append(evs, Ev("os_system",
                                     <<"s","u","d","o"," ","t","o","u","c","h"," ">>
                                         \o file_path, "tty", 0))
                 ELSE evs)
                \o <<Ev("execute_file_editor", editor_command(file_path, editor, fs),
                        "tty", 0)>>
         /\ child' = [cmd |-> editor_command(file_path, editor, fs), via |-> "tty",
                      timeout |-> 0]

\* _execute_edit_operation(cmd) up to its first wait; also sets command'
EditOperation(cmd, evs) ==
    /\ command' = cmd
    /\ IF IsLoginPage(LastWord(cmd))
       THEN /\ pc' = "TemplateWait"
            /\ events' = Append(evs, Ev("oracle", <<>>, "get_template_suggestion", 0))
            /\ child' = NoChild
       ELSE \E fs \in FsScenarios :
                BeginFileEditor(LastWord(cmd), Basename(edit_operation_editor(cmd)), fs, evs)

\* ------------------------------------------------------------------------
\* Agent.run: one line read
\* ------------------------------------------------------------------------

cfg == <<security, environ>>
seq_locals == <<commands, step, results, analyze_args>>
turn_locals == <<command, response, result, explanation, dangerous, reason_if_dangerous, shape,
                 unsafe_reason, needs_confirmation, is_interactive>>

\* `if not user_input: continue`
EmptyLine ==
    /\ pc = "Idle"
    /\ user_input' = <<>>
    /\ route' = "none"
    /\ ToIdle(<<>>)
    /\ ResetLocals
    /\ returned' = NoResult
    /\ UNCHANGED <<cfg, history>>

\* exit / quit / bye: _handle_special_commands returns True and run() breaks
Quit(inp) ==
    /\ pc = "Idle"
    /\ special_kind(inp) = "quit"
    /\ user_input' = inp
    /\ route' = "special"
    /\ pc' = "ShuttingDown"
    /\ events' = <<Ev("ui", <<>>, "quit", 0)>>
    /\ child' = NoChild
    /\ ResetLocals
    /\ returned' = NoResult
    /\ UNCHANGED <<cfg, history>>

\* help / clear / history / config
LocalVerb(inp) ==
    /\ pc = "Idle"
    /\ special_kind(inp) \in {"help", "clear", "history", "config"}
    /\ user_input' = inp
    /\ route' = "special"
    /\ ToIdle(<<Ev("ui", <<>>, special_kind(inp), 0)>>)
    /\ ResetLocals
    /\ returned' = NoResult
    /\ UNCHANGED <<cfg, history>>

\* edit <path> [editor]
EditVerb(inp) ==
    /\ pc = "Idle"
    /\ special_kind(inp) = "edit"
    /\ user_input' = inp
    /\ route' = "special"
    /\ IF edit_file_path(inp) = <<>>
       THEN ToIdle(<<Ev("show_error", <<>>, "no_file_path", 0)>>)
       ELSE \E fs \in FsScenarios :
                BeginFileEditor(edit_file_path(inp), edit_editor(inp), fs, <<>>)
    /\ ResetLocals
    /\ returned' = NoResult
    /\ UNCHANGED <<cfg, history>>

\* ------------------------------------------------------------------------
\* Agent.process_user_input
\* ------------------------------------------------------------------------

\* the line reaches process_user_input, which appends it to the history;
\* time.time() is the ordinal of the entry
BeginTurn(inp) ==
    /\ pc = "Idle"
    /\ Len(history) < MaxTurns
    /\ inp # <<>>
    /\ special_kind(inp) = "none"
    /\ user_input' = inp
    /\ history' = Append(history, [user_input |-> inp, timestamp |-> Len(history) + 1])
    /\ returned' = NoResult
    /\ UNCHANGED <<cfg>>

\* the trivial fast path, up to the risk prompt or the child
Trivial(inp) ==
    /\ BeginTurn(inp)
    /\ is_simple_command(inp)
    /\ route' = "trivial"
    /\ command' = inp
    /\ is_interactive' = _is_interactive_command(inp)
    /\ LET verdict == is_command_safe(security, inp)
           evs == <<Ev("is_command_safe", inp, IF verdict.safe THEN "safe" ELSE "unsafe", 0)>>
       IN  /\ unsafe_reason' = verdict.reason
           /\ IF ~verdict.safe /\ security.confirm_dangerous_commands
              THEN /\ pc' = "TrivialConfirm"
                   /\ events' = evs
                   /\ child' = NoChild
              ELSE StartExec(inp, evs, "TrivialExec", 0)
    /\ response' = NoResponse
    /\ result' = <<>>
    /\ explanation' = <<>> /\ dangerous' = FALSE /\ reason_if_dangerous' = <<>>
    /\ shape' = NoShape
    /\ needs_confirmation' = FALSE
    /\ commands' = <<>> /\ step' = 0 /\ results' = <<>> /\ analyze_args' = NoArgs

TrivialAnswer(ans) ==
    /\ pc = "TrivialConfirm"
    /\ IF ans
       THEN StartExec(command, Append(events, Ev("confirm", command, "risk_yes", 0)),
                      "TrivialExec", 0)
       ELSE ToIdle(Append(events, Ev("confirm", command, "risk_no", 0)))
    /\ UNCHANGED <<cfg, history, route, user_input, turn_locals, seq_locals, returned>>

\* a trivial fast path that sends the captured output for analysis
TrivialDone_analyze(o) ==
    /\ pc = "TrivialExec"
    /\ o \in Outcomes(child)
    /\ returned' = o
    /\ pc' = "AnalyzeWait"
    /\ events' = Append(events, Ev("oracle", command, "analyze_command_output", 0))
    /\ child' = NoChild
    /\ UNCHANGED <<cfg, history, route, user_input, turn_locals, seq_locals>>

TrivialDone(o) ==
    /\ pc = "TrivialExec"
    /\ o \in Outcomes(child)
    /\ returned' = o
    /\ ToIdle(Append(events, Ev("show_result", command, o.how, 0)))
    /\ UNCHANGED <<cfg, history, route, user_input, turn_locals, seq_locals>>

WebPage_first(inp) ==
    /\ BeginTurn(inp)
    /\ _parse_create_edit_request(inp) # <<>>
    /\ route' = "webpage"
    /\ EditOperation(_parse_create_edit_request(inp), <<>>)
    /\ response' = NoResponse
    /\ result' = <<>>
    /\ explanation' = <<>> /\ dangerous' = FALSE /\ reason_if_dangerous' = <<>>
    /\ shape' = NoShape
    /\ unsafe_reason' = <<>>
    /\ needs_confirmation' = FALSE
    /\ is_interactive' = FALSE
    /\ commands' = <<>> /\ step' = 0 /\ results' = <<>> /\ analyze_args' = NoArgs

\* a web-page creation request: _execute_edit_operation on the synthesized command
WebPage(inp) ==
    /\ BeginTurn(inp)
    /\ ~is_simple_command(inp)
    /\ _parse_create_edit_request(inp) # <<>>
    /\ route' = "webpage"
    /\ EditOperation(_parse_create_edit_request(inp), <<>>)
    /\ response' = NoResponse
    /\ result' = <<>>
    /\ explanation' = <<>> /\ dangerous' = FALSE /\ reason_if_dangerous' = <<>>
    /\ shape' = NoShape
    /\ unsafe_reason' = <<>>
    /\ needs_confirmation' = FALSE
    /\ is_interactive' = FALSE
    /\ commands' = <<>> /\ step' = 0 /\ results' = <<>> /\ analyze_args' = NoArgs

\* edit phrasing or an interactive program: _execute_interactive_operation
Interactive(inp) ==
    /\ BeginTurn(inp)
    /\ ~is_simple_command(inp)
    /\ _parse_create_edit_request(inp) = <<>>
    /\ _parse_interactive_command(inp) # <<>>
    /\ route' = "interactive"
    /\ LET cmd == _parse_interactive_command(inp)
       IN  /\ command' = cmd
           /\ IF starts_with_editor(cmd) /\ EndsWith(LastWord(cmd), <<".","h","t","m","l">>)
              THEN /\ pc' = "TemplateWait"
                   /\ events' = <<Ev("oracle", <<>>, "get_template_suggestion", 0)>>
                   /\ child' = NoChild
              ELSE StartExec(cmd, <<>>, "InterExec", 0)
    /\ response' = NoResponse
    /\ result' = <<>>
    /\ explanation' = <<>> /\ dangerous' = FALSE /\ reason_if_dangerous' = <<>>
    /\ shape' = NoShape
    /\ unsafe_reason' = <<>>
    /\ needs_confirmation' = FALSE
    /\ is_interactive' = FALSE
    /\ commands' = <<>> /\ step' = 0 /\ results' = <<>> /\ analyze_args' = NoArgs

\* anything else is sent to the oracle
AskOracle(inp) ==
    /\ BeginTurn(inp)
    /\ ~is_simple_command(inp)
    /\ _parse_create_edit_request(inp) = <<>>
    /\ _parse_interactive_command(inp) = <<>>
    /\ route' = "oracle"
    /\ pc' = "OracleWait"
    /\ events' = <<Ev("oracle", <<>>, "get_command_for_task", 0)>>
    /\ child' = NoChild
    /\ ResetLocals

\* _get_template_suggestion returned (its own try swallows a failure)
TemplateDone ==
    /\ pc = "TemplateWait"
    /\ IF route = "interactive"
       THEN StartExec(command, events, "InterExec", 0)
       ELSE \E fs \in FsScenarios :
                BeginFileEditor(LastWord(command),
                                Basename(edit_operation_editor(command)), fs, events)
    /\ UNCHANGED <<cfg, history, route, user_input, turn_locals, seq_locals, returned>>

\* the restart offers after a successful edit
NginxAfterEdit(file_path) ==
    /\ EndsWith(file_path, <<".","h","t","m","l">>)
    /\ \/ Contains(file_path, <<"n","g","i","n","x">>)
       \/ StartsWith(file_path, <<"/","u","s","r","/","s","h","a","r","e","/","n","g","i","n","x">>)

NginxAfterInteractive(cmd) ==
    /\ starts_with_editor(cmd)
    /\ EndsWith(LastWord(cmd), <<".","h","t","m","l">>)
    /\ \/ Contains(LastWord(cmd), <<"n","g","i","n","x">>)
       \/ Contains(LastWord(cmd), <<"/","v","a","r","/","w","w","w","/">>)
       \/ Contains(LastWord(cmd),
                   <<"/","u","s","r","/","s","h","a","r","e","/","n","g","i","n","x","/">>)

restart_nginx ==
    <<"s","u","d","o"," ","s","y","s","t","e","m","c","t","l"," ",
      "r","e","s","t","a","r","t"," ","n","g","i","n","x">>

\* the editor started by execute_file_editor exits
EditChildDone(o) ==
    /\ pc = "EditChild"
    /\ o \in Outcomes(child)
    /\ returned' = o
    /\ IF route # "special" /\ o.return_code = 0 /\ NginxAfterEdit(LastWord(command))
       THEN /\ pc' = "NginxConfirm"
            /\ events' = events
            /\ child' = NoChild
       ELSE ToIdle(Append(events, Ev(IF o.return_code = 0 THEN "ui" ELSE "show_error",
                                     child.cmd, o.how, 0)))
    /\ UNCHANGED <<cfg, history, route, user_input, turn_locals, seq_locals>>

InterDone_analyze(o) ==
    /\ pc = "InterExec"
    /\ o \in Outcomes(child)
    /\ returned' = o
    /\ pc' = "AnalyzeWait"
    /\ events' = Append(events, Ev("oracle", command, "analyze_command_output", 0))
    /\ child' = NoChild
    /\ UNCHANGED <<cfg, history, route, user_input, turn_locals, seq_locals>>

\* the child of _execute_interactive_operation exits
InterDone(o) ==
    /\ pc = "InterExec"
    /\ o \in Outcomes(child)
    /\ returned' = o
    /\ IF o.return_code = 0 /\ NginxAfterInteractive(command)
       THEN /\ pc' = "NginxConfirm"
            /\ events' = events
            /\ child' = NoChild
       ELSE ToIdle(Append(events, Ev(IF o.return_code = 0 THEN "ui" ELSE "show_error",
                                     child.cmd, o.how, 0)))
    /\ UNCHANGED <<cfg, history, route, user_input, turn_locals, seq_locals>>

NginxAnswer(ans) ==
    /\ pc = "NginxConfirm"
    /\ IF ans
       THEN StartExec(restart_nginx, Append(events, Ev("confirm", <<>>, "nginx_yes", 0)),
                      "NginxExec", 0)
       ELSE ToIdle(Append(events, Ev("confirm", <<>>, "nginx_no", 0)))
    /\ UNCHANGED <<cfg, history, route, user_input, turn_locals, seq_locals, returned>>

NginxDone(o) ==
    /\ pc = "NginxExec"
    /\ o \in Outcomes(child)
    /\ ToIdle(Append(events, Ev(IF o.return_code = 0 THEN "ui" ELSE "show_error",
                                child.cmd, o.how, 0)))
    /\ UNCHANGED <<cfg, history, route, user_input, turn_locals, seq_locals, returned>>

\* ------------------------------------------------------------------------
\* The oracle route
\* ------------------------------------------------------------------------

\* f"命令 {i+1}: {res[0]}\n输出:\n{res[1]}\n", joined by "\n"
all_stdout(res) ==
    Join([i \in 1..Len(res) |->
              <<"U547D","U4EE4"," ">> \o Str(i) \o <<":"," ">> \o res[i].cmd
                  \o <<"\n","U8F93","U51FA",":","\n">> \o res[i].stdout \o <<"\n">>],
         <<"\n">>)

\* f"命令 {i+1} 错误:\n{res[2]}\n" if res[2] else "", joined by "\n"
all_stderr(res) ==
    Join([i \in 1..Len(res) |->
              IF res[i].stderr # <<>>
              THEN <<"U547D","U4EE4"," ">> \o Str(i) \o <<" ","U9519","U8BEF",":","\n">>
                       \o res[i].stderr \o <<"\n">>
              ELSE <<>>],
         <<"\n">>)

\* the arguments of the one analyze_command_output call of a sequence
AnalyzeArgs(res) ==
    [command |-> Join([i \in 1..Len(res) |-> res[i].cmd], <<";"," ">>),
     stdout |-> all_stdout(res),
     stderr |-> all_stderr(res)]

\* step k of _execute_commands_sequence, up to its prompt or its child; past the
\* last step, the batch analysis.  Sets pc', events', child', step', results'.
SeqStep(k, cmds, res, evs) ==
    /\ step' = k
    /\ results' = res
    /\ analyze_args' = IF k > Len(cmds) THEN AnalyzeArgs(res) ELSE analyze_args
    /\ IF k > Len(cmds)
       THEN /\ pc' = "SeqAnalyzeWait"
            /\ events' = Append(evs, Ev("oracle", <<>>, "analyze_command_output", 0))
            /\ child' = NoChild
       ELSE LET verdict == is_command_safe(security, cmds[k])
                evs2 == Append(evs, Ev("is_command_safe", cmds[k],
                                       IF verdict.safe THEN "safe" ELSE "unsafe", k))
            IN  IF ~verdict.safe /\ security.confirm_dangerous_commands
                THEN /\ pc' = "SeqRiskConfirm"
                     /\ events' = evs2
                     /\ child' = NoChild
                ELSE StartExec(cmds[k], evs2, "SeqExec", k)

SeqBreak_silent(res, evs) ==
    /\ step' = step
    /\ results' = res
    /\ analyze_args' = analyze_args
    /\ ToIdle(evs)

\* `break`: the loop is left and the batch analysis requested
SeqBreak(res, evs) ==
    /\ step' = step
    /\ results' = res
    /\ analyze_args' = AnalyzeArgs(res)
    /\ pc' = "SeqAnalyzeWait"
    /\ events' = Append(evs, Ev("oracle", <<>>, "analyze_command_output", 0))
    /\ child' = NoChild

\* the confirmation gate and the single execution (lines 233-246)
GateAndExecute(cmd, needs, evs) ==
    IF needs /\ security.confirm_dangerous_commands
    THEN /\ pc' = "RiskConfirm"
         /\ events' = evs
         /\ child' = NoChild
    ELSE StartExec(cmd, evs, "OracleExec", 0)

\* get_command_for_task returned: validation, classification, first prompt
ProposalReceived(reply) ==
    /\ pc = "OracleWait"
    /\ LET res == get_command_for_task(reply)
           cmd == Get(res, "command", <<>>)
           flagged == Get(res, "dangerous", FALSE)
           verdict == is_command_safe(security, cmd)
           file_path == _extract_file_path(cmd)
       IN  /\ response' = reply
           /\ result' = res
           /\ explanation' = Get(res, "explanation", <<>>)
           /\ dangerous' = Get(res, "dangerous", FALSE)
           /\ reason_if_dangerous' = Get(res, "reason_if_dangerous", <<>>)
           /\ shape' = IF \/ cmd = <<>>
                          \/ Len(cmd) > MaxCommandLen
                          \/ \E p \in suspicious_starts : StartsWith(cmd, p)
                       THEN NoShape ELSE ShapeOf(cmd)
           /\ IF cmd = <<>>
              THEN /\ ToIdle(Append(events, Ev("show_error", <<>>, "no_command", 0)))
                   /\ command' = cmd /\ route' = route
                   /\ UNCHANGED <<unsafe_reason, needs_confirmation, is_interactive,
                                  seq_locals>>
              ELSE IF Len(cmd) > MaxCommandLen
              THEN /\ ToIdle(Append(events, Ev("show_error", <<>>, "too_long", 0)))
                   /\ command' = cmd /\ route' = route
                   /\ UNCHANGED <<unsafe_reason, needs_confirmation, is_interactive,
                                  seq_locals>>
              ELSE IF \E p \in suspicious_starts : StartsWith(cmd, p)
              THEN /\ ToIdle(Append(events, Ev("show_error", <<>>, "prose", 0)))
                   /\ command' = cmd /\ route' = route
                   /\ UNCHANGED <<unsafe_reason, needs_confirmation, is_interactive,
                                  seq_locals>>
              ELSE IF _is_file_creation_command(cmd) /\ file_path # <<>>
              THEN \* _ensure_directory_exists, then _execute_edit_operation
                   /\ route' = "filecreate"
                   /\ \E missing \in BOOLEAN :
                          IF missing /\ Dirname(file_path) # <<>>
                          THEN /\ StartExec(<<"s","u","d","o"," ","m","k","d","i","r"," ",
                                              "-","p"," ">> \o Dirname(file_path),
                                            events, "MkdirExec", 0)
                               /\ command' = cmd
                          ELSE EditOperation(_get_preferred_editor(environ) \o <<" ">>
                                                 \o file_path, events)
                   /\ UNCHANGED <<unsafe_reason, needs_confirmation, is_interactive,
                                  seq_locals>>
              ELSE /\ command' = cmd /\ route' = route
                   /\ unsafe_reason' = IF ~verdict.safe THEN verdict.reason
                                       ELSE IF flagged
                                       THEN Get(res, "reason_if_dangerous", <<>>)
                                       ELSE verdict.reason
                   /\ needs_confirmation' = (~verdict.safe \/ flagged)
                   /\ LET evs == Append(events, Ev("is_command_safe", cmd,
                                    IF verdict.safe THEN "safe" ELSE "unsafe", 0))
                      IN  IF is_interactive_raises(cmd)
                          THEN \* IndexError, caught at the end of process_user_input
                               /\ ToIdle(evs \o <<Ev("caught", <<>>, "process_user_input", 0),
                                                  Ev("show_error", <<>>, "exception", 0)>>)
                               /\ is_interactive' = FALSE
                          ELSE /\ is_interactive' = _is_interactive_command(cmd)
                               /\ IF /\ _is_complex_command(cmd)
                                     /\ Contains(cmd, <<"&","&">>)
                                     /\ ~_is_interactive_command(cmd)
                                  THEN /\ pc' = "SplitConfirm"
                                       /\ events' = evs
                                       /\ child' = NoChild
                                  ELSE GateAndExecute(cmd, ~verdict.safe \/ flagged, evs)
                   /\ UNCHANGED seq_locals
    /\ UNCHANGED <<cfg, history, user_input, returned>>

\* `sudo mkdir -p` of _ensure_directory_exists ended; the editor follows
MkdirDone(o) ==
    /\ pc = "MkdirExec"
    /\ o \in Outcomes(child)
    /\ EditOperation(_get_preferred_editor(environ) \o <<" ">> \o _extract_file_path(command),
                     events)
    /\ UNCHANGED <<cfg, history, route, user_input, response, result, explanation, dangerous,
                   reason_if_dangerous, shape, unsafe_reason,
                   needs_confirmation, is_interactive, seq_locals, returned>>

SplitAnswer_forced(ans) ==
    /\ pc = "SplitConfirm"
    /\ route' = "sequence"
    /\ commands' = _split_complex_command(command)
    /\ SeqStep(1, _split_complex_command(command), <<>>,
               Append(events, Ev("confirm", command,
                                 IF ans THEN "split_yes" ELSE "split_no", 0)))
    /\ UNCHANGED <<cfg, history, user_input, turn_locals, returned>>

\* the offer to run a complex command step by step
SplitAnswer(ans) ==
    /\ pc = "SplitConfirm"
    /\ IF ans
       THEN /\ route' = "sequence"
            /\ commands' = _split_complex_command(command)
            /\ SeqStep(1, _split_complex_command(command), <<>>,
                       Append(events, Ev("confirm", command, "split_yes", 0)))
       ELSE /\ route' = route
            /\ GateAndExecute(command, needs_confirmation,
                              Append(events, Ev("confirm", command, "split_no", 0)))
            /\ UNCHANGED seq_locals
    /\ UNCHANGED <<cfg, history, user_input, turn_locals, returned>>

\* the risk prompt of the single execution
RiskAnswer(ans) ==
    /\ pc = "RiskConfirm"
    /\ IF ans
       THEN StartExec(command, Append(events, Ev("confirm", command, "risk_yes", 0)),
                      "OracleExec", 0)
       ELSE ToIdle(Append(events, Ev("confirm", command, "risk_no", 0)))
    /\ UNCHANGED <<cfg, history, route, user_input, turn_locals, seq_locals, returned>>

OracleExecDone_success_only(o) ==
    /\ pc = "OracleExec"
    /\ o \in Outcomes(child)
    /\ returned' = o
    /\ IF is_interactive \/ o.return_code # 0
       THEN /\ ToIdle(Append(events, Ev(IF o.return_code = 0 THEN "ui" ELSE "show_error",
                                        command, o.how, 0)))
            /\ analyze_args' = analyze_args
       ELSE /\ pc' = "AnalyzeWait"
            /\ events' = Append(events, Ev("oracle", command, "analyze_command_output", 0))
            /\ child' = NoChild
            /\ analyze_args' = [command |-> command, stdout |-> o.stdout, stderr |-> o.stderr]
    /\ UNCHANGED <<cfg, history, route, user_input, turn_locals, commands, step, results>>

\* the single execution ended: an interactive command is only reported, a
\* captured one is sent for analysis
OracleExecDone(o) ==
    /\ pc = "OracleExec"
    /\ o \in Outcomes(child)
    /\ returned' = o
    /\ IF is_interactive
       THEN /\ ToIdle(Append(events, Ev(IF o.return_code = 0 THEN "ui" ELSE "show_error",
                                        command, o.how, 0)))
            /\ analyze_args' = analyze_args
       ELSE /\ pc' = "AnalyzeWait"
            /\ events' = Append(events, Ev("oracle", command, "analyze_command_output", 0))
            /\ child' = NoChild
            /\ analyze_args' = [command |-> command, stdout |-> o.stdout, stderr |-> o.stderr]
    /\ UNCHANGED <<cfg, history, route, user_input, turn_locals, commands, step, results>>

AnalyzeDone ==
    /\ pc = "AnalyzeWait"
    /\ ToIdle(Append(events, Ev("show_result", command, "analysis", 0)))
    /\ UNCHANGED <<cfg, history, route, user_input, turn_locals, seq_locals, returned>>

\* ------------------------------------------------------------------------
\* Agent._execute_commands_sequence
\* ------------------------------------------------------------------------

user_cancelled == <<"U7528","U6237","U53D6","U6D88","U6267","U884C">>

\* one entry of results: (cmd, stdout, stderr, return_code)
Entry(cmd, out, err, rc) == [cmd |-> cmd, stdout |-> out, stderr |-> err, return_code |-> rc]

\* a risk prompt of a step whose refusal leaves the loop
SeqRiskAnswer_abort(ans) ==
    /\ pc = "SeqRiskConfirm"
    /\ IF ans
       THEN /\ StartExec(commands[step],
                         Append(events, Ev("confirm", commands[step], "risk_yes", step)),
                         "SeqExec", step)
            /\ UNCHANGED <<step, results, analyze_args>>
       ELSE SeqBreak(Append(results, Entry(commands[step], <<>>, user_cancelled, 1)),
                     Append(events, Ev("confirm", commands[step], "risk_no", step)))
    /\ UNCHANGED <<cfg, history, route, user_input, turn_locals, commands, returned>>

\* the risk prompt of a step: a refused step is recorded and the loop continues
SeqRiskAnswer(ans) ==
    /\ pc = "SeqRiskConfirm"
    /\ IF ans
       THEN /\ StartExec(commands[step],
                         Append(events, Ev("confirm", commands[step], "risk_yes", step)),
                         "SeqExec", step)
            /\ UNCHANGED <<step, results, analyze_args>>
       ELSE SeqStep(step + 1, commands,
                    Append(results, Entry(commands[step], <<>>, user_cancelled, 1)),
                    Append(events, Ev("confirm", commands[step], "risk_no", step)))
    /\ UNCHANGED <<cfg, history, route, user_input, turn_locals, commands, returned>>

SeqExecDone_noprompt(o) ==
    /\ pc = "SeqExec"
    /\ o \in Outcomes(child)
    /\ returned' = o
    /\ SeqStep(step + 1, commands,
               Append(results, Entry(commands[step], o.stdout, o.stderr, o.return_code)),
               events)
    /\ UNCHANGED <<cfg, history, route, user_input, turn_locals, commands>>

\* a step's child ended: it is recorded; after a failure that is not the last
\* step the operator is asked whether to go on
SeqExecDone(o) ==
    /\ pc = "SeqExec"
    /\ o \in Outcomes(child)
    /\ returned' = o
    /\ LET res == Append(results, Entry(commands[step], o.stdout, o.stderr, o.return_code))
       IN  IF o.return_code # 0 /\ step < Len(commands)
           THEN /\ pc' = "SeqContinueConfirm"
                /\ events' = events
                /\ child' = NoChild
                /\ results' = res
                /\ step' = step
                /\ analyze_args' = analyze_args
           ELSE SeqStep(step + 1, commands, res, events)
    /\ UNCHANGED <<cfg, history, route, user_input, turn_locals, commands>>

\* a continue prompt whose answer is not read: the loop always goes on
SeqContinueAnswer_ignored(ans) ==
    /\ pc = "SeqContinueConfirm"
    /\ SeqStep(step + 1, commands, results,
               Append(events, Ev("confirm", <<>>,
                                 IF ans THEN "continue_yes" ELSE "continue_no", step)))
    /\ UNCHANGED <<cfg, history, route, user_input, turn_locals, commands, returned>>

SeqContinueAnswer(ans) ==
    /\ pc = "SeqContinueConfirm"
    /\ IF ans
       THEN SeqStep(step + 1, commands, results,
                    Append(events, Ev("confirm", <<>>, "continue_yes", step)))
       ELSE SeqBreak(results, Append(events, Ev("confirm", <<>>, "continue_no", step)))
    /\ UNCHANGED <<cfg, history, route, user_input, turn_locals, commands, returned>>

SeqAnalyzeDone ==
    /\ pc = "SeqAnalyzeWait"
    /\ ToIdle(Append(events, Ev("show_result", <<>>, "analysis", 0)))
    /\ UNCHANGED <<cfg, history, route, user_input, turn_locals, seq_locals, returned>>

\* ------------------------------------------------------------------------
\* Exceptions
\* ------------------------------------------------------------------------

Waiting == {"TrivialConfirm", "TrivialExec", "TemplateWait", "EditChild", "NginxConfirm",
            "NginxExec", "InterExec", "OracleWait", "MkdirExec", "SplitConfirm",
            "RiskConfirm", "OracleExec", "AnalyzeWait", "SeqRiskConfirm", "SeqExec",
            "SeqContinueConfirm", "SeqAnalyzeWait"}

\* a KeyboardInterrupt handler that leaves the loop
run_except_KeyboardInterrupt_exit(evs) ==
    /\ pc' = "ShuttingDown"
    /\ events' = Append(evs, Ev("caught", <<>>, "run_KeyboardInterrupt", 0))
    /\ child' = NoChild

\* the handler of run() for KeyboardInterrupt: report, next iteration
run_except_KeyboardInterrupt(evs) ==
    ToIdle(Append(evs, Ev("caught", <<>>, "run_KeyboardInterrupt", 0)))

\* the handler of run() for Exception: report, next iteration
run_except_Exception(evs) ==
    ToIdle(evs \o <<Ev("caught", <<>>, "run_Exception", 0),
                    Ev("show_error", <<>>, "exception", 0)>>)

\* the handler of process_user_input for Exception: report, return
process_user_input_except(evs) ==
    ToIdle(evs \o <<Ev("caught", <<>>, "process_user_input", 0),
                    Ev("show_error", <<>>, "exception", 0)>>)

\* Ctrl-C at the prompt, at a confirmation or while a child or the oracle is
\* awaited: no `except Exception` catches it before run()
Interrupt ==
    /\ pc \in Waiting \cup {"Idle"}
    /\ run_except_KeyboardInterrupt(IF pc = "Idle" THEN <<>> ELSE events)
    /\ UNCHANGED <<cfg, history, route, user_input, turn_locals, seq_locals, returned>>

\* the waits inside a try of their own (_get_template_suggestion,
\* _ensure_directory_exists): an Exception raised there is logged and the turn
\* goes on, as TemplateDone and MkdirDone have it
Swallowing == {"TemplateWait", "MkdirExec"}

\* a call made while reading the line or handling the turn raises an Exception
\* (EOFError at a prompt, an error of the console): inside process_user_input
\* its own handler takes it, elsewhere the handler of run()
Fault ==
    /\ pc \in (Waiting \ Swallowing) \cup {"Idle"}
    /\ IF pc = "Idle" THEN run_except_Exception(<<>>)
       ELSE IF route = "special" THEN run_except_Exception(events)
       ELSE process_user_input_except(events)
    /\ UNCHANGED <<cfg, history, route, user_input, turn_locals, seq_locals, returned>>

Next ==
    \/ EmptyLine
    \/ \E inp \in Inputs : Quit(inp)
    \/ \E inp \in Inputs : LocalVerb(inp)
    \/ \E inp \in Inputs : EditVerb(inp)
    \/ \E inp \in Inputs : Trivial(inp)
    \/ \E ans \in BOOLEAN : TrivialAnswer(ans)
    \/ \E o \in Outcomes(child) : TrivialDone(o)
    \/ \E inp \in Inputs : WebPage(inp)
    \/ \E inp \in Inputs : Interactive(inp)
    \/ \E inp \in Inputs : AskOracle(inp)
    \/ TemplateDone
    \/ \E o \in Outcomes(child) : EditChildDone(o)
    \/ \E o \in Outcomes(child) : InterDone(o)
    \/ \E ans \in BOOLEAN : NginxAnswer(ans)
    \/ \E o \in Outcomes(child) : NginxDone(o)
    \/ \E reply \in Replies : ProposalReceived(reply)
    \/ \E o \in Outcomes(child) : MkdirDone(o)
    \/ \E ans \in BOOLEAN : SplitAnswer(ans)
    \/ \E ans \in BOOLEAN : RiskAnswer(ans)
    \/ \E o \in Outcomes(child) : OracleExecDone(o)
    \/ AnalyzeDone
    \/ \E ans \in BOOLEAN : SeqRiskAnswer(ans)
    \/ \E o \in Outcomes(child) : SeqExecDone(o)
    \/ \E ans \in BOOLEAN : SeqContinueAnswer(ans)
    \/ SeqAnalyzeDone
    \/ Interrupt
    \/ Fault

Spec == Init /\ [][Next]_vars

\* ------------------------------------------------------------------------
\* CommandExecutor.is_command_safe on its own: the configuration and the
\* command are drawn from bounded sets and the classifier is applied once
\* ------------------------------------------------------------------------

\* the longest blocked_commands / confirm_patterns list drawn
MaxListLen == 2

tok_rm == <<"r","m">>
tok_rm_rf == <<"r","m"," ","-","r","f">>
tok_reboot == <<"r","e","b","o","o","t">>
tok_mkfs == <<"m","k","f","s">>

\* the lists of length <= MaxListLen over S
ListsOver(S) == UNION {[1..n -> S] : n \in 0..MaxListLen}

SafetyConfigs ==
    {[confirm_dangerous_commands |-> TRUE, blocked_commands |-> bl, confirm_patterns |-> cp] :
        bl \in ListsOver({tok_rm, tok_rm_rf, tok_reboot}),
        cp \in ListsOver({tok_rm_rf, tok_mkfs})}

SafetyCommands ==
    {tok_reboot,
     <<" ">> \o tok_reboot \o <<"\n">>,
     tok_reboot \o <<" ","n","o","w">>,
     tok_reboot \o <<"i","n","g">>,
     <<"s","u","d","o"," ">> \o tok_reboot,
     tok_rm,
     tok_rm_rf \o <<" ","/">>,
     <<"r","m","d","i","r"," ","x">>,
     <<"s","u","d","o"," ">> \o tok_rm_rf \o <<" ","/">>,
     <<"e","c","h","o"," ","a"," ","|"," ">> \o tok_mkfs,
     <<"l","s"," ","&","&"," ">> \o tok_reboot,
     <<"l","s">>}

SafetyInit ==
    /\ pc = "Idle"
    /\ security \in SafetyConfigs
    /\ command \in SafetyCommands
    /\ environ = [set |-> FALSE, value |-> <<>>]
    /\ history = <<>>
    /\ events = <<>>
    /\ route = "none"
    /\ user_input = <<>>
    /\ response = NoResponse
    /\ result = <<>>
    /\ explanation = <<>> /\ dangerous = FALSE /\ reason_if_dangerous = <<>>
    /\ shape = NoShape
    /\ unsafe_reason = <<>>
    /\ needs_confirmation = FALSE
    /\ is_interactive = FALSE
    /\ commands = <<>>
    /\ step = 0
    /\ results = <<>>
    /\ analyze_args = NoArgs
    /\ child = NoChild
    /\ returned = NoResult

\* is_safe, unsafe_reason = self.executor.is_command_safe(command)
Classify ==
    /\ pc = "Idle"
    /\ pc' = "Classified"
    /\ unsafe_reason' = is_command_safe(security, command).reason
    /\ needs_confirmation' = ~is_command_safe(security, command).safe
    /\ UNCHANGED <<cfg, history, events, route, user_input, command, response, result,
                   explanation, dangerous, reason_if_dangerous, shape, is_interactive,
                   seq_locals, child, returned>>

SafetyNext == Classify

SpecSafety == SafetyInit /\ [][SafetyNext]_vars

\* ------------------------------------------------------------------------
\* get_command_for_task on its own: one reply, one call, and what
\* process_user_input reads from the dict it returns
\* ------------------------------------------------------------------------

\* the number of fragments a free-text reply is made of
MaxReplyLines == 2

cmd_markup == <<"U0060","c","a","t"," ","a","_","b","U0060">>
cmd_quoted == <<"\"","l","s"," ","*","\"">>
cmd_explained == <<"U89E3","U91CA",":"," ","l","s">>

\* the lines (and pairs of lines) free-text replies are made of
reply_fragments ==
    {<<"U0060","U0060","U0060","b","a","s","h","\n","d","f"," ","-","h">>,
     <<"U0060","U0060","U0060">>,
     <<"d","f"," ","-","h">>,
     <<"#"," ","l","i","s","t"," ","f","i","l","e","s">>,
     <<"#","#"," ","l","i","s","t">>,
     <<"U547D","U4EE4",":"," ","U0060","l","s"," ","-","l","a","U0060">>,
     <<"U89E3","U91CA",":"," ","l","i","s","t">>,
     <<"U5371","U9669",":"," ","U662F">>,
     <<"U539F","U56E0",":"," ","r","i","s","k","y">>,
     <<"U547D","U4EE4","U76EE","U7684",":"," ","l","i","s","t">>,
     <<"l","i","s","t"," ","f","i","l","e","s">>,
     <<"$"," ","l","s">>,
     <<>>}

\* the replies json.loads rejects
TextReplies ==
    {[kind |-> "text", content |-> Join(q, <<"\n">>)] :
        q \in UNION {[1..n -> reply_fragments] : n \in 1..MaxReplyLines}}

json_keys == {"command", "explanation", "dangerous", "reason_if_dangerous"}

\* the replies json.loads accepts: objects with any of the four keys
JsonReplies ==
    {[kind |-> "json", content |-> [k \in K |-> full[k]]] :
        K \in SUBSET json_keys,
        full \in [command : {cmd_df, cmd_prose, cmd_markup, cmd_quoted, cmd_explained},
                  explanation : {text_list}, dangerous : BOOLEAN,
                  reason_if_dangerous : {text_risky}]}

NormalizerReplies ==
    {[kind |-> "error"], [kind |-> "no_content"]} \cup JsonReplies \cup TextReplies

NormalizerInit ==
    /\ pc = "OracleWait"
    /\ response \in NormalizerReplies
    /\ security \in SecurityConfigs
    /\ environ = [set |-> FALSE, value |-> <<>>]
    /\ history = <<>>
    /\ events = <<Ev("oracle", <<>>, "get_command_for_task", 0)>>
    /\ route = "oracle"
    /\ user_input = <<>>
    /\ command = <<>>
    /\ result = <<>>
    /\ explanation = <<>> /\ dangerous = FALSE /\ reason_if_dangerous = <<>>
    /\ shape = NoShape
    /\ unsafe_reason = <<>>
    /\ needs_confirmation = FALSE
    /\ is_interactive = FALSE
    /\ commands = <<>>
    /\ step = 0
    /\ results = <<>>
    /\ analyze_args = NoArgs
    /\ child = NoChild
    /\ returned = NoResult

\* command = result.get("command", "") and the three reads that follow it
ReadResult(res) ==
    /\ result' = res
    /\ command' = Get(res, "command", <<>>)
    /\ explanation' = Get(res, "explanation", <<>>)
    /\ dangerous' = Get(res, "dangerous", FALSE)
    /\ reason_if_dangerous' = Get(res, "reason_if_dangerous", <<>>)

\* result = self.api.get_command_for_task(user_input, system_info)
Normalize ==
    /\ pc = "OracleWait"
    /\ pc' = "Normalized"
    /\ ReadResult(get_command_for_task(response))
    /\ UNCHANGED <<cfg, history, events, route, user_input, response, shape, unsafe_reason,
                   needs_confirmation, is_interactive, seq_locals, child, returned>>

NormalizerNext == Normalize

SpecNormalizer == NormalizerInit /\ [][NormalizerNext]_vars

\* ------------------------------------------------------------------------
\* The shape of a command on its own: the classifiers and the timeout
\* selection applied to one command
\* ------------------------------------------------------------------------

\* the number of simple commands a classified command is chained from
MaxSegments == 4

shape_segments ==
    {<<"a","p","t","-","g","e","t"," ","i","n","s","t","a","l","l"," ","n","g","i","n","x">>,
     <<"l","s"," ","-","l","a">>,
     cmd_vim,
     cmd_echo_html}

shape_separators == {<<" ","&","&"," ">>, <<";"," ">>}

\* the commands chained from n segments
RECURSIVE Chains(_)
Chains(n) ==
    IF n = 1 THEN shape_segments
    ELSE {c \o sep \o seg : c \in Chains(n - 1), sep \in shape_separators,
                             seg \in shape_segments}

shape_examples ==
    {<<"a","p","t"," ","u","p","d","a","t","e">>,
     <<"d","n","f"," ","u","p","g","r","a","d","e">>,
     <<"d","n","f"," ","l","i","s","t">>,
     <<"s","u","d","o"," ","p","a","c","m","a","n"," ","u","p","d","a","t","e">>,
     <<"a","p","t","-","g","e","t"," "," ","i","n","s","t","a","l","l">>,
     <<"l","s">>,
     cmd_df,
     <<"t","o","u","c","h"," ","c",".","h","t","m","l">>,
     <<"t","o","u","c","h"," "," ","c",".","h","t","m","l">>,
     <<"c","a","t"," ",">"," ","a",".","h","t","m","l">>,
     <<"p","r","i","n","t","f"," ","x"," ",">"," ","b",".","h","t","m","l">>,
     <<"e","c","h","o"," ","a"," ",">"," ","b",";"," ","t","o","u","c","h"," ","c",".","h","t","m","l">>,
     <<"t","o","u","c","h"," ","c",".","h","t","m","l"," ","&","&"," ","e","c","h","o"," ","a",
       " ",">"," ","b",".","h","t","m","l">>,
     <<"f","t","p"," ","a">>,
     <<"t","a","i","l"," ","-","f"," ","x">>}

ShapeCommands == shape_examples \cup UNION {Chains(n) : n \in 1..MaxSegments}

ShapeInit ==
    /\ pc = "Idle"
    /\ command \in ShapeCommands
    /\ user_input = command
    /\ security = [confirm_dangerous_commands |-> TRUE, blocked_commands |-> <<>>,
                   confirm_patterns |-> <<>>]
    /\ environ = [set |-> FALSE, value |-> <<>>]
    /\ history = <<>>
    /\ events = <<>>
    /\ route = "none"
    /\ response = NoResponse
    /\ result = <<>>
    /\ explanation = <<>> /\ dangerous = FALSE /\ reason_if_dangerous = <<>>
    /\ shape = NoShape
    /\ unsafe_reason = <<>>
    /\ needs_confirmation = FALSE
    /\ is_interactive = FALSE
    /\ commands = <<>>
    /\ step = 0
    /\ results = <<>>
    /\ analyze_args = NoArgs
    /\ child = NoChild
    /\ returned = NoResult

\* the classifiers applied to the command: the whitelist test on the line as
\* typed, and _is_file_creation_command, _extract_file_path,
\* _is_complex_command and _is_interactive_command on the command
Shape ==
    /\ pc = "Idle"
    /\ pc' = "Shaped"
    /\ route' = IF is_simple_command(user_input) THEN "trivial" ELSE "none"
    /\ shape' = [is_file_creation |-> _is_file_creation_command(command),
                 file_path |-> IF _is_file_creation_command(command)
                               THEN _extract_file_path(command) ELSE <<>>,
                 is_complex_command |-> _is_complex_command(command)]
    /\ is_interactive' = (~is_interactive_raises(command) /\ _is_interactive_command(command))
    /\ UNCHANGED <<cfg, history, events, user_input, command, response, result, explanation,
                   dangerous, reason_if_dangerous, unsafe_reason, needs_confirmation,
                   seq_locals, child, returned>>

\* timeout = self._get_command_timeout(command), on the captured path
SelectTimeout ==
    /\ pc = "Shaped"
    /\ pc' = "Timed"
    /\ child' = [cmd |-> command, via |-> "pipe", timeout |-> _get_command_timeout(command)]
    /\ UNCHANGED <<cfg, history, events, route, user_input, turn_locals, seq_locals, returned>>

ShapeNext == Shape \/ SelectTimeout

SpecShape == ShapeInit /\ [][ShapeNext]_vars

\* ------------------------------------------------------------------------
\* execute_multiple_commands on its own: a list of commands, the children it
\* starts one after the other, the list it returns
\* ------------------------------------------------------------------------

\* the longest list handed to execute_multiple_commands
MaxBatch == 3

BatchCommands == {cmd_df, cmd_rm, cmd_vim}

MultipleInit ==
    /\ pc = "Idle"
    /\ commands \in UNION {[1..n -> BatchCommands] : n \in 0..MaxBatch}
    /\ security = [confirm_dangerous_commands |-> TRUE, blocked_commands |-> <<>>,
                   confirm_patterns |-> <<>>]
    /\ environ = [set |-> FALSE, value |-> <<>>]
    /\ history = <<>>
    /\ events = <<>>
    /\ route = "none"
    /\ user_input = <<>>
    /\ command = <<>>
    /\ response = NoResponse
    /\ result = <<>>
    /\ explanation = <<>> /\ dangerous = FALSE /\ reason_if_dangerous = <<>>
    /\ shape = NoShape
    /\ unsafe_reason = <<>>
    /\ needs_confirmation = FALSE
    /\ is_interactive = FALSE
    /\ step = 0
    /\ results = <<>>
    /\ analyze_args = NoArgs
    /\ child = NoChild
    /\ returned = NoResult

\* one turn of `for cmd in commands`: commands[k] is handed to
\* execute_command; past the last command, `return results`
MultipleStep(k, res, evs) ==
    /\ step' = k
    /\ results' = res
    /\ IF k > Len(commands)
       THEN /\ pc' = "Returned"
            /\ events' = evs
            /\ child' = NoChild
       ELSE StartExec(commands[k], evs, "MultipleExec", k)

\* the call: results = [], then the first turn of the loop
execute_multiple_commands ==
    /\ pc = "Idle"
    /\ MultipleStep(1, <<>>, events)
    /\ UNCHANGED <<cfg, history, route, user_input, turn_locals, commands, analyze_args,
                   returned>>

\* a loop without the `break`: the next command runs whatever the exit code
MultipleExecDone_no_break(o) ==
    /\ pc = "MultipleExec"
    /\ o \in Outcomes(child)
    /\ returned' = o
    /\ MultipleStep(step + 1,
                    Append(results, Entry(commands[step], o.stdout, o.stderr, o.return_code)),
                    events)
    /\ UNCHANGED <<cfg, history, route, user_input, turn_locals, commands, analyze_args>>

\* execute_command returned: the tuple is appended; a non-zero exit code
\* leaves the loop and the list is returned, else the next turn
MultipleExecDone(o) ==
    /\ pc = "MultipleExec"
    /\ o \in Outcomes(child)
    /\ returned' = o
    /\ LET res == Append(results, Entry(commands[step], o.stdout, o.stderr, o.return_code))
       IN  IF o.return_code # 0
           THEN /\ pc' = "Returned"
                /\ events' = events
                /\ child' = NoChild
                /\ step' = step
                /\ results' = res
           ELSE MultipleStep(step + 1, res, events)
    /\ UNCHANGED <<cfg, history, route, user_input, turn_locals, commands, analyze_args>>

\* Ctrl-C while a child is awaited: `except Exception` of execute_command does
\* not catch it, the call is left without a return value
MultipleInterrupt ==
    /\ pc = "MultipleExec"
    /\ pc' = "Raised"
    /\ child' = NoChild
    /\ UNCHANGED <<cfg, history, events, route, user_input, turn_locals, seq_locals, returned>>

MultipleNext ==
    \/ execute_multiple_commands
    \/ \E o \in Outcomes(child) : MultipleExecDone(o)
    \/ MultipleInterrupt

SpecMultiple == MultipleInit /\ [][MultipleNext]_vars

\* ------------------------------------------------------------------------
\* Properties
\* ------------------------------------------------------------------------

\* the calls that hand a command string to the executor
ExecOps == {"execute_command", "execute_file_editor", "os_system"}

\* the command the oracle proposed in this turn and its dangerous flag
Proposed == Get(result, "command", <<>>)
OracleDangerous == Get(result, "dangerous", FALSE)

\* C1 as stated: on the oracle-backed path with confirm_dangerous_commands
\* enabled, when the classifier's verdict for the proposed command is unsafe
\* or the oracle flagged it dangerous, nothing of that command is handed to
\* execute_command in the turn unless the operator has answered yes to a risk
\* prompt before; on every branch, the accepted decomposition included.
C1_RiskGateOnEveryBranch ==
    (/\ security.confirm_dangerous_commands
     /\ route \in {"oracle", "sequence"}
     /\ (~is_command_safe(security, Proposed).safe \/ OracleDangerous))
    => \A i \in DOMAIN events :
           events[i].op = "execute_command" =>
               \E j \in 1..(i - 1) : events[j].op = "confirm" /\ events[j].arg = "risk_yes"

\* C2 as stated: in every turn and on every route, each command string handed
\* to the executor was evaluated by is_command_safe earlier in the turn, and
\* with confirm_dangerous_commands enabled an unsafe one runs only after the
\* operator confirmed it.
C2_ClassifiedBeforeExecuted ==
    route \notin {"none", "special"} =>
        \A i \in DOMAIN events :
            events[i].op \in ExecOps =>
                /\ \E j \in 1..(i - 1) :
                       events[j].op = "is_command_safe" /\ events[j].cmd = events[i].cmd
                /\ (security.confirm_dangerous_commands
                    /\ ~is_command_safe(security, events[i].cmd).safe)
                   => \E j \in 1..(i - 1) :
                          /\ events[j].op = "confirm" /\ events[j].arg = "risk_yes"
                          /\ events[j].cmd = events[i].cmd

\* C5 as stated: no command string longer than 1000 characters is ever handed
\* to the executor, on any route.
C5_NoLongCommandExecuted ==
    \A i \in DOMAIN events :
        events[i].op \in ExecOps => Len(events[i].cmd) <= MaxCommandLen

\* C6: in a turn whose input's first whitespace-delimited token is in the
\* trivial whitelist, no oracle call of any kind is made from the start of the
\* turn until the loop is back at Idle, whatever the exit code of the command
\* and whatever the operator answers to the confirmation.
C6_TrivialNeverCallsOracle ==
    (user_input # <<>> /\ special_kind(user_input) = "none" /\ is_simple_command(user_input))
    => \A i \in DOMAIN events : events[i].op # "oracle"

\* a whitelisted command that needed the confirmation was confirmed, run,
\* failed, was reported, and the loop is back at Idle
C6_Witness ==
    /\ pc = "Idle"
    /\ is_simple_command(user_input)
    /\ returned.return_code # 0
    /\ \E i \in DOMAIN events : events[i].op = "confirm" /\ events[i].arg = "risk_yes"
    /\ \E i \in DOMAIN events : events[i].op = "execute_command"
    /\ events[Len(events)].op = "show_result"

\* C7: _execute_commands_sequence executes the steps strictly in list order,
\* each at most once; the result list is always an in-order prefix of the step
\* list; after a failed step and a declined continue prompt no later step is
\* classified, executed or recorded; after a confirmed one the next step is
\* taken up at once and, when the sequence has ended, it is recorded, having
\* been executed unless the operator refused its own risk prompt.
C7_SequenceInOrderPrefix ==
    route = "sequence" =>
        /\ Len(results) <= Len(commands)
        /\ \A k \in DOMAIN results : results[k].cmd = commands[k]
        /\ \A i \in DOMAIN events :
               events[i].op = "execute_command" =>
                   /\ events[i].step \in 1..Len(commands)
                   /\ events[i].cmd = commands[events[i].step]
                   /\ \A j \in 1..(i - 1) :
                          events[j].op = "execute_command" => events[j].step < events[i].step
        /\ \A i \in DOMAIN events :
               (events[i].op = "confirm" /\ events[i].arg = "continue_no") =>
                   /\ Len(results) = events[i].step
                   /\ results[events[i].step].return_code # 0
                   /\ \A j \in (i + 1)..Len(events) :
                          events[j].op \notin {"execute_command", "is_command_safe", "confirm"}
        /\ \A i \in DOMAIN events :
               (events[i].op = "confirm" /\ events[i].arg = "continue_yes") =>
                   /\ results[events[i].step].return_code # 0
                   /\ i < Len(events)
                   /\ events[i + 1].op = "is_command_safe"
                   /\ events[i + 1].step = events[i].step + 1
                   /\ events[i + 1].cmd = commands[events[i].step + 1]
                   /\ (\E j \in (i + 1)..Len(events) : events[j].op = "oracle") =>
                          /\ Len(results) >= events[i].step + 1
                          /\ \E j \in (i + 1)..Len(events) :
                                 /\ events[j].step = events[i].step + 1
                                 /\ \/ events[j].op = "execute_command"
                                    \/ events[j].op = "confirm" /\ events[j].arg = "risk_no"

\* [failing, ok] with the continue prompt confirmed: two entries, the first
\* with a non-zero exit code, the second executed normally
C7_Witness ==
    /\ route = "sequence"
    /\ pc = "Idle"
    /\ Len(commands) = 2
    /\ Len(results) = 2
    /\ results[1].return_code # 0
    /\ results[2].return_code = 0
    /\ \E i \in DOMAIN events : events[i].op = "confirm" /\ events[i].arg = "continue_yes"
    /\ \E i \in DOMAIN events : events[i].op = "execute_command" /\ events[i].step = 2

\* C8: in a sequence with confirm_dangerous_commands enabled, a step the
\* operator refuses is unsafe, is never executed, is recorded with empty
\* stdout, the refusal reason in stderr and exit code 1, and the loop goes
\* straight on to the next step (to the batch analysis after the last step),
\* with no continue-after-failure prompt.
C8_RefusedStepRecordedAndSkipped ==
    (route = "sequence" /\ security.confirm_dangerous_commands) =>
        \A i \in DOMAIN events :
            (events[i].op = "confirm" /\ events[i].arg = "risk_no") =>
                /\ events[i].step \in 1..Len(commands)
                /\ ~is_command_safe(security, commands[events[i].step]).safe
                /\ \A j \in DOMAIN events :
                       events[j].op = "execute_command" => events[j].step # events[i].step
                /\ Len(results) >= events[i].step
                /\ results[events[i].step]
                       = Entry(commands[events[i].step], <<>>, user_cancelled, 1)
                /\ i < Len(events)
                /\ IF events[i].step < Len(commands)
                   THEN /\ events[i + 1].op = "is_command_safe"
                        /\ events[i + 1].step = events[i].step + 1
                   ELSE /\ events[i + 1].op = "oracle"
                        /\ events[i + 1].arg = "analyze_command_output"

\* the second of three steps was refused and the third was then executed
C8_Witness ==
    /\ route = "sequence"
    /\ security.confirm_dangerous_commands
    /\ Len(commands) = 3
    /\ Len(results) = 3
    /\ results[2] = Entry(commands[2], <<>>, user_cancelled, 1)
    /\ \E i \in DOMAIN events :
           events[i].op = "confirm" /\ events[i].arg = "risk_no" /\ events[i].step = 2
    /\ \E i \in DOMAIN events : events[i].op = "execute_command" /\ events[i].step = 3
    /\ \A i \in DOMAIN events : events[i].op = "execute_command" => events[i].step # 2

\* C9 as stated: every command the system treats as interactive (matched by
\* the lexicon of _is_interactive_command, or routed to the direct-interactive
\* path because it starts with an entry of executor.interactive_commands) is
\* run attached to the terminal, never through the captured pipe, and its
\* result carries empty stdout and stderr.
C9_InteractiveAlwaysOnTerminal ==
    /\ \A i \in DOMAIN events :
           (/\ events[i].op = "execute_command"
            /\ \/ _is_interactive_command(events[i].cmd)
               \/ route = "interactive" /\ events[i].cmd = command)
           => events[i].arg = "tty"
    /\ (route = "interactive" /\ returned.how # "none")
       => (returned.stdout = <<>> /\ returned.stderr = <<>>)

\* C10: the loop is left (ShuttingDown) only by a line that is a quit verb,
\* in any letter case; an interrupt or an exception raised while reading the
\* line, handling a control verb or processing a turn is caught and reported,
\* and the loop is back at Idle.
C10_LoopLeftOnlyByQuitVerb ==
    /\ pc = "ShuttingDown" =>
           /\ Lower(user_input) \in {<<"e","x","i","t">>, <<"q","u","i","t">>, <<"b","y","e">>}
           /\ \A i \in DOMAIN events : events[i].op # "caught"
    /\ \A i \in DOMAIN events :
           events[i].op = "caught" =>
               /\ pc = "Idle"
               /\ events[i].arg # "run_KeyboardInterrupt" =>
                      (i < Len(events) /\ events[i + 1].op = "show_error")

\* an exception raised while a step of a sequence was running has been caught
\* and reported, and the loop waits for the next line
C10_Witness ==
    /\ pc = "Idle"
    /\ route = "sequence"
    /\ Len(events) > 2
    /\ events[Len(events) - 1].op = "caught"
    /\ events[Len(events) - 2].op = "execute_command"
    /\ events[Len(events)].op = "show_error"

\* the trimmed command equals the token t or starts with t and a space
TokenHit(c, t) == Strip(c) = t \/ StartsWith(Strip(c), t \o <<" ">>)

\* C3 as stated: for every configured blocked token t and every command that,
\* trimmed, equals t or starts with t and a space, is_command_safe returns
\* unsafe with the reason that names t.
C3_EveryBlockedTokenNamed ==
    pc = "Classified" =>
        \A k \in 1..Len(security.blocked_commands) :
            TokenHit(command, security.blocked_commands[k]) =>
                /\ needs_confirmation
                /\ unsafe_reason = BlockedReason(security.blocked_commands[k])

\* C3, amended: for every configured blocked token t and every command that,
\* trimmed, equals t or starts with t and a space, is_command_safe returns
\* unsafe, and the reason names the first token of blocked_commands, in the
\* configured order, that the command matches (t itself when no earlier token
\* matches).
C3_FirstBlockedTokenNamed ==
    pc = "Classified" =>
        \A k \in 1..Len(security.blocked_commands) :
            TokenHit(command, security.blocked_commands[k]) =>
                /\ needs_confirmation
                /\ \E j \in 1..k :
                       /\ TokenHit(command, security.blocked_commands[j])
                       /\ \A i \in 1..(j - 1) :
                              ~TokenHit(command, security.blocked_commands[i])
                       /\ unsafe_reason = BlockedReason(security.blocked_commands[j])

\* a command that matches two configured tokens has been classified: the
\* reason names the earlier one and not the later one
C3_Witness ==
    /\ pc = "Classified"
    /\ Len(security.blocked_commands) = 2
    /\ security.blocked_commands[1] # security.blocked_commands[2]
    /\ TokenHit(command, security.blocked_commands[1])
    /\ TokenHit(command, security.blocked_commands[2])
    /\ needs_confirmation
    /\ unsafe_reason = BlockedReason(security.blocked_commands[1])

\* C4: every command that contains a configured confirm pattern as a
\* substring, at any position, is classified unsafe, whatever else it holds.
C4_PatternAnywhereUnsafe ==
    pc = "Classified" =>
        \A k \in 1..Len(security.confirm_patterns) :
            Contains(command, security.confirm_patterns[k]) => needs_confirmation

\* a command that matches no blocked token and holds a confirm pattern in its
\* middle has been classified unsafe, with the reason of that pattern
C4_Witness ==
    /\ pc = "Classified"
    /\ \A k \in 1..Len(security.blocked_commands) :
           ~TokenHit(command, security.blocked_commands[k])
    /\ \E k \in 1..Len(security.confirm_patterns) :
           /\ Contains(command, security.confirm_patterns[k])
           /\ ~StartsWith(command, security.confirm_patterns[k])
           /\ unsafe_reason = PatternReason(security.confirm_patterns[k])
    /\ needs_confirmation

\* ------------------------------------------------------------------------
\* The normaliser of the oracle's reply (SpecNormalizer)
\* ------------------------------------------------------------------------

\* C11 as stated: whatever the reply, JSON or free text, the command that
\* get_command_for_task returns never starts with a reserved prose marker.
C11_NormalizerNeverReturnsProse ==
    pc = "Normalized" =>
        \A p \in suspicious_starts : ~StartsWith(Get(result, "command", <<>>), p)

\* C12: a reply that is a JSON object is returned as it is, markup and quotes
\* included, and process_user_input reads a key the object lacks as "" / False.
C12_JsonReturnedVerbatim ==
    pc = "Normalized" /\ response.kind = "json" =>
        /\ result = response.content
        /\ command = IF "command" \in DOMAIN response.content
                     THEN response.content.command ELSE <<>>
        /\ explanation = IF "explanation" \in DOMAIN response.content
                         THEN response.content.explanation ELSE <<>>
        /\ dangerous = IF "dangerous" \in DOMAIN response.content
                       THEN response.content.dangerous ELSE FALSE
        /\ reason_if_dangerous = IF "reason_if_dangerous" \in DOMAIN response.content
                                 THEN response.content.reason_if_dangerous ELSE <<>>

\* a JSON object whose command carries backticks and an underscore, and which
\* has no dangerous key, has been read
C12_Witness ==
    /\ pc = "Normalized"
    /\ response.kind = "json"
    /\ DOMAIN response.content = {"command", "explanation"}
    /\ command = cmd_markup
    /\ dangerous = FALSE

\* ------------------------------------------------------------------------
\* The shape of a command and its timeout (SpecShape)
\* ------------------------------------------------------------------------

\* c holds a package manager's name, one space, and update, upgrade or install
NamesPackageOperation(c) ==
    \E pm \in SeqToSet(pkg_managers), op \in SeqToSet(pkg_operations) :
        \E i \in 1..Len(c) : OccursAt(c, pm \o <<" ">> \o op, i)

\* c holds more than two "&&", or more than two ";"
ManySeparators(c) == Len(SplitOn(c, <<"&","&">>)) > 3 \/ Len(SplitOn(c, <<";">>)) > 3

FirstToken(c) == IF Words(c) = <<>> THEN <<>> ELSE Words(c)[1]

\* the characters that end a path token
PathStops == Whitespace \cup {";", "|", "&"}

\* the positions where head is followed by a path token
TokensAfter(c, head) ==
    {i \in 1..Len(c) : /\ OccursAt(c, head, i)
                       /\ i + Len(head) <= Len(c)
                       /\ c[i + Len(head)] \notin PathStops}

\* the path token behind the first of these positions
FirstTokenAfter(c, head) ==
    LET i == CHOOSE i \in TokensAfter(c, head) : \A j \in TokensAfter(c, head) : i <= j
        a == i + Len(head)
    IN  SubSeq(c, a, CHOOSE b \in a..Len(c) :
                         /\ \A k \in a..b : c[k] \notin PathStops
                         /\ (b = Len(c) \/ c[b + 1] \in PathStops))

\* c starts with echo or printf and redirects to a name ending in .html, or is
\* a cat redirected to, or a touch of, such a name
PlainHtmlShape(c) ==
    /\ EndsWith(c, <<".","h","t","m","l">>)
    /\ \A k \in 1..Len(c) : c[k] # "\n"
    /\ \/ /\ StartsWith(c, <<"e","c","h","o"," ">>)
          /\ \E j \in 6..(Len(c) - 8) : OccursAt(c, <<" ",">"," ">>, j)
       \/ /\ StartsWith(c, <<"p","r","i","n","t","f"," ">>)
          /\ \E j \in 8..(Len(c) - 8) : OccursAt(c, <<" ",">"," ">>, j)
       \/ StartsWith(c, <<"c","a","t"," ",">"," ">>) /\ Len(c) > 11
       \/ StartsWith(c, <<"t","o","u","c","h"," ">>) /\ Len(c) > 11

ReservedVerb(inp) ==
    \/ Lower(inp) \in {<<"e","x","i","t">>, <<"q","u","i","t">>, <<"b","y","e">>,
                       <<"h","e","l","p">>, <<"c","l","e","a","r">>,
                       <<"h","i","s","t","o","r","y">>, <<"c","o","n","f","i","g">>}
    \/ Lower(FirstToken(inp)) = <<"e","d","i","t">>

\* C15 as stated: a line that is a reserved control verb is handled locally,
\* with no oracle call and without entering process_user_input, and an edit
\* without a path reports an error and executes nothing.
C15_ReservedVerbsHandledLocally ==
    ReservedVerb(user_input) =>
        /\ route = "special"
        /\ \A k \in 1..Len(events) : events[k].op # "oracle"
        /\ Len(Words(user_input)) = 1 /\ Lower(user_input) = <<"e","d","i","t">> =>
               /\ \E k \in 1..Len(events) : events[k].op = "show_error"
               /\ \A k \in 1..Len(events) : events[k].op \notin ExecOps

\* the line hits a direct pattern: it is no reserved verb and no whitelisted
\* command, and it reads as a web-page request, as an edit phrasing or as the
\* invocation of an interactive program
DirectHit(inp) ==
    /\ inp # <<>>
    /\ special_kind(inp) = "none"
    /\ ~is_simple_command(inp)
    /\ \/ _parse_create_edit_request(inp) # <<>>
       \/ _parse_interactive_command(inp) # <<>>

\* C16 as stated: in a turn whose input hits a direct pattern no oracle call
\* of any kind is made between dispatch and the return to Idle.
C16_DirectPatternNoOracleCall ==
    DirectHit(user_input) => \A i \in DOMAIN events : events[i].op # "oracle"

\* C16, amended: in a turn whose input hits a direct pattern the oracle is
\* never asked for a command or for an explanation of output; the only call
\* it can receive is one template-suggestion request, made before anything is
\* executed and only when the file to edit is an .html file.
C16_DirectPatternSkipsProposal ==
    DirectHit(user_input) =>
        \A i \in DOMAIN events :
            events[i].op = "oracle" =>
                /\ i = 1
                /\ events[i].arg = "get_template_suggestion"
                /\ EndsWith(LastWord(command), <<".","h","t","m","l">>)

\* a direct hit asked for a template suggestion, ran its editor without any
\* other oracle call, and the loop is back at Idle
C16_Witness ==
    /\ pc = "Idle"
    /\ DirectHit(user_input)
    /\ Len(events) >= 2
    /\ events[1].op = "oracle"
    /\ \E i \in DOMAIN events : events[i].op \in ExecOps

\* C17 as stated: the history only ever grows by one entry appended at its
\* end, and every non-empty line the main loop accepts, reserved control
\* verbs included, has its own entry from the moment it is dispatched.
C17_HistoryRecordsEveryTurn ==
    /\ [][\/ history' = history
          \/ /\ Len(history') = Len(history) + 1
             /\ SubSeq(history', 1, Len(history)) = history]_vars
    /\ [](user_input # <<>> =>
              /\ history # <<>>
              /\ history[Len(history)].user_input = user_input)

\* ------------------------------------------------------------------------
\* The sequence (Spec)
\* ------------------------------------------------------------------------

\* the positions in events of the explanation calls of this turn
AnalyzeCalls ==
    {i \in DOMAIN events :
        events[i].op = "oracle" /\ events[i].arg = "analyze_command_output"}

\* an exception cut the turn short
TurnCut == \E i \in DOMAIN events : events[i].op = "caught"

\* C18: a run of _execute_commands_sequence makes no explanation call while
\* its steps are being taken; once its loop is over, whether all steps were
\* taken or the operator aborted, it makes exactly one, after which nothing is
\* executed, and that call carries the joined commands and the labelled
\* outputs of exactly the recorded steps, which are the steps taken up, in
\* order.
C18_SequenceEndsWithOneBatchAnalysis ==
    route = "sequence" =>
        /\ Cardinality(AnalyzeCalls) <= 1
        /\ pc \in {"SeqRiskConfirm", "SeqExec", "SeqContinueConfirm"} => AnalyzeCalls = {}
        /\ pc = "SeqAnalyzeWait" => AnalyzeCalls = {Len(events)}
        /\ pc = "Idle" /\ ~TurnCut => AnalyzeCalls # {}
        /\ \A c \in AnalyzeCalls :
               /\ \A i \in DOMAIN events : i > c => events[i].op \notin ExecOps
               /\ analyze_args = AnalyzeArgs(results)
               /\ results # <<>>
               /\ Len(results) <= Len(commands)
               /\ \A k \in DOMAIN results :
                      /\ results[k].cmd = commands[k]
                      /\ \E i \in 1..c :
                             /\ events[i].step = k
                             /\ \/ events[i].op = "execute_command"
                                \/ events[i].op = "confirm" /\ events[i].arg = "risk_no"
               /\ \A i \in DOMAIN events : events[i].step <= Len(results)

\* a sequence the operator aborted after a failed step got its one batch
\* analysis, over fewer steps than were planned, and the loop is back at Idle
C18_Witness ==
    /\ route = "sequence"
    /\ pc = "Idle"
    /\ ~TurnCut
    /\ Cardinality(AnalyzeCalls) = 1
    /\ results # <<>>
    /\ Len(results) < Len(commands)
    /\ analyze_args.stderr # <<>>
    /\ events[Len(events)].op = "show_result"

\* ------------------------------------------------------------------------
\* The order of the routes (Spec)
\* ------------------------------------------------------------------------

\* the line is one the handler of reserved verbs takes
ReservedMatch(inp) ==
    \/ Lower(inp) \in {<<"e","x","i","t">>, <<"q","u","i","t">>, <<"b","y","e">>,
                       <<"h","e","l","p">>, <<"c","l","e","a","r">>,
                       <<"h","i","s","t","o","r","y">>, <<"c","o","n","f","i","g">>}
    \/ StartsWith(Lower(inp), <<"e","d","i","t"," ">>)

\* the first test, in the fixed order, that the line passes
FirstMatch(inp) ==
    IF ReservedMatch(inp) THEN "special"
    ELSE IF FirstToken(inp) \in simple_commands THEN "trivial"
    ELSE IF _parse_create_edit_request(inp) # <<>> THEN "webpage"
    ELSE IF _parse_interactive_command(inp) # <<>> THEN "interactive"
    ELSE "oracle"

\* how a turn sent to the oracle may go on once the proposal is there
OracleBranches == {"oracle", "filecreate", "sequence"}

\* C19: the route of a turn is the first match of its line in the order
\* reserved verb, trivial whitelist, web-page request, interactive or edit
\* phrasing, oracle; it is fixed at dispatch (the oracle route alone goes on
\* by what was proposed) and what a later test would have led to never happens:
\* only the oracle route asks for a proposal, and a trivial turn executes
\* nothing but the line itself.
C19_RouteIsFirstMatch ==
    /\ [](user_input # <<>> =>
              /\ \/ route = FirstMatch(user_input)
                 \/ route \in OracleBranches /\ FirstMatch(user_input) = "oracle"
              /\ route \notin OracleBranches =>
                     \A i \in DOMAIN events :
                         ~(events[i].op = "oracle" /\ events[i].arg = "get_command_for_task")
              /\ route = "trivial" =>
                     \A i \in DOMAIN events :
                         events[i].op \in ExecOps => events[i].cmd = user_input)
    /\ [][pc # "Idle" => \/ route' = route
                         \/ route = "oracle" /\ route' \in OracleBranches]_vars

\* a line that begins with cat and also reads as a web-page request was run
\* as the trivial command it is, and the loop is back at Idle
C19_Witness ==
    /\ pc = "Idle"
    /\ route = "trivial"
    /\ FirstToken(user_input) = <<"c","a","t">>
    /\ _parse_create_edit_request(user_input) # <<>>
    /\ \E i \in DOMAIN events : events[i].op = "execute_command"
    /\ events[Len(events)].op = "show_result"

\* step k of the sequence was handed to the executor
Executed(k) ==
    \E i \in DOMAIN events : events[i].op = "execute_command" /\ events[i].step = k

\* the continue prompt of step k is on the screen or has been answered
Prompted(k) ==
    \/ pc = "SeqContinueConfirm" /\ step = k
    \/ \E i \in DOMAIN events :
           /\ events[i].op = "confirm"
           /\ events[i].arg \in {"continue_yes", "continue_no"}
           /\ events[i].step = k

\* after a refused continue prompt nothing more is classified, prompted for,
\* executed or recorded
RefusalEndsSequence ==
    \A i \in DOMAIN events :
        (events[i].op = "confirm" /\ events[i].arg = "continue_no") =>
            /\ Len(results) = events[i].step
            /\ \A j \in (i + 1)..Len(events) :
                   events[j].op \notin ExecOps \cup {"is_command_safe", "confirm"}

\* C20 as stated: in a sequence every executed step that exits with a
\* non-zero code, the last one included, is followed by the continue prompt,
\* and a refusal ends the sequence with the remaining steps neither attempted
\* nor recorded.
C20_PromptAfterEveryFailedStep ==
    route = "sequence" =>
        /\ \A k \in DOMAIN results :
               (Executed(k) /\ results[k].return_code # 0) =>
                   (Prompted(k) \/ (TurnCut /\ k = Len(results)))
        /\ RefusalEndsSequence

\* C20, amended: in a sequence an executed step that exits with a non-zero
\* code is followed by the continue prompt exactly when it is not the last
\* step; the prompt appears in no other case, and a refusal ends the sequence
\* with the remaining steps neither attempted nor recorded.
C20_PromptAfterFailedStepButLast ==
    route = "sequence" =>
        /\ \A k \in DOMAIN results :
               (Executed(k) /\ results[k].return_code # 0 /\ k < Len(commands)) =>
                   (Prompted(k) \/ (TurnCut /\ k = Len(results)))
        /\ \A k \in 1..Len(commands) :
               Prompted(k) =>
                   /\ k < Len(commands)
                   /\ k \in DOMAIN results
                   /\ Executed(k)
                   /\ results[k].return_code # 0
        /\ RefusalEndsSequence

\* the first step of a sequence failed, the operator declined to continue,
\* the later steps were left out of the record and the loop is back at Idle
C20_Witness ==
    /\ route = "sequence"
    /\ pc = "Idle"
    /\ ~TurnCut
    /\ \E i \in DOMAIN events :
           events[i].op = "confirm" /\ events[i].arg = "continue_no" /\ events[i].step = 1
    /\ Len(results) = 1
    /\ Len(commands) > 1
    /\ results[1].return_code # 0
    /\ ~Executed(2)

\* ------------------------------------------------------------------------
\* The decomposition offer (Spec)
\* ------------------------------------------------------------------------

\* the answers given to the decomposition prompt in this turn
SplitAnswers ==
    {events[i].arg : i \in {j \in DOMAIN events :
                               /\ events[j].op = "confirm"
                               /\ events[j].arg \in {"split_yes", "split_no"}}}

\* the decomposition prompt is on the screen or has been answered
SplitOffered == pc = "SplitConfirm" \/ SplitAnswers # {}

\* the command is Complex, contains && and is not Interactive
SplitCandidate(cmd) ==
    /\ _is_complex_command(cmd)
    /\ Contains(cmd, <<"&","&">>)
    /\ ~_is_interactive_command(cmd)

\* the proposal passed the validation and was not taken as a file creation
ReachesClassification(cmd) ==
    /\ cmd # <<>>
    /\ Len(cmd) <= MaxCommandLen
    /\ \A p \in suspicious_starts : ~StartsWith(cmd, p)
    /\ ~(_is_file_creation_command(cmd) /\ _extract_file_path(cmd) # <<>>)

\* what follows the answer: accepted, the steps split on && run as a sequence
\* and nothing else is executed; declined, only the verbatim command is
\* executed, behind the confirmation gate, and there is no sequence
SplitIsAnOffer ==
    /\ Cardinality(SplitAnswers) <= 1
    /\ "split_yes" \in SplitAnswers =>
           /\ route = "sequence"
           /\ commands = _split_complex_command(Proposed)
           /\ \A i \in DOMAIN events :
                  events[i].op \in ExecOps =>
                      /\ events[i].step \in DOMAIN commands
                      /\ events[i].cmd = commands[events[i].step]
    /\ "split_no" \in SplitAnswers =>
           /\ route = "oracle"
           /\ commands = <<>> /\ results = <<>>
           /\ \A i \in DOMAIN events :
                  events[i].op \in ExecOps =>
                      /\ events[i].step = 0
                      /\ events[i].cmd = Proposed
                      /\ (needs_confirmation /\ security.confirm_dangerous_commands) =>
                             \E j \in 1..(i - 1) :
                                 events[j].op = "confirm" /\ events[j].arg = "risk_yes"

\* C21 as stated: once the proposal is in, the decomposition prompt is shown
\* exactly when the proposed command is Complex, contains && and is not
\* Interactive, and it is an offer.
C21_SplitOfferedForEveryCandidate ==
    (route \in OracleBranches /\ response # NoResponse) =>
        /\ SplitOffered => SplitCandidate(Proposed)
        /\ (SplitCandidate(Proposed) /\ ~TurnCut) => SplitOffered
        /\ SplitIsAnOffer

\* C21, amended: the decomposition prompt is shown exactly when the proposed
\* command passed the validation, was not taken as a file creation, is
\* Complex, contains && and is not Interactive, and it is an offer.
C21_SplitOfferedWhenClassified ==
    (route \in OracleBranches /\ response # NoResponse) =>
        /\ SplitOffered => (SplitCandidate(Proposed) /\ ReachesClassification(Proposed))
        /\ (SplitCandidate(Proposed) /\ ReachesClassification(Proposed) /\ ~TurnCut)
               => SplitOffered
        /\ SplitIsAnOffer

\* the operator declined the decomposition, confirmed the risk, the verbatim
\* command was executed once and the loop is back at Idle
C21_Witness ==
    /\ pc = "Idle"
    /\ route = "oracle"
    /\ SplitAnswers = {"split_no"}
    /\ \E i \in DOMAIN events : events[i].op = "confirm" /\ events[i].arg = "risk_yes"
    /\ \E i \in DOMAIN events : events[i].op = "execute_command" /\ events[i].cmd = Proposed
    /\ commands = <<>>

\* ------------------------------------------------------------------------
\* What the executor returns (Spec)
\* ------------------------------------------------------------------------

\* a child that ran out of time was a captured one, and what is returned for
\* it is empty stdout, the message naming the timeout selected for its
\* command, and exit code 1
TimeoutReported ==
    (returned' # returned /\ returned'.how = "timeout") =>
        /\ child.via = "pipe"
        /\ child.timeout = _get_command_timeout(child.cmd)
        /\ returned'.stdout = <<>>
        /\ returned'.stderr = TimeoutMessage(child.timeout)
        /\ returned'.return_code = 1

\* C22 as stated: a timeout of a captured child is reported as empty stdout,
\* the message naming the timeout and exit code 1, and a timeout is the only
\* case in which a non-zero exit code is returned that the child did not
\* report.
C22_OnlyTimeoutSynthesizesExitCode ==
    [][/\ TimeoutReported
       /\ (returned' # returned /\ returned'.return_code # 0 /\ returned'.how # "exit")
              => returned'.how = "timeout"]_vars

\* C22, amended: a timeout of a captured child is reported as empty stdout,
\* the message naming the timeout and exit code 1; a non-zero exit code the
\* child did not report is returned in two cases only, the timeout and an
\* exception raised while the child was started or awaited, and it is 1 in
\* both, with empty stdout.
C22_TimeoutOrExceptionSynthesizesExitCode ==
    [][/\ TimeoutReported
       /\ (returned' # returned /\ returned'.return_code # 0 /\ returned'.how # "exit")
              => /\ returned'.how \in {"timeout", "error"}
                 /\ returned'.return_code = 1
                 /\ returned'.stdout = <<>>
                 /\ returned'.how = "timeout" => child.via = "pipe"]_vars

\* a package-manager command ran into its ten-minute timeout
C22_Witness ==
    /\ returned.how = "timeout"
    /\ returned.return_code = 1
    /\ returned.stderr = TimeoutMessage(600)
    /\ \E i \in DOMAIN events :
           /\ events[i].op = "execute_command"
           /\ events[i].arg = "pipe"
           /\ _get_command_timeout(events[i].cmd) = 600

\* ------------------------------------------------------------------------
\* A reply without a command (SpecNormalizer, Spec)
\* ------------------------------------------------------------------------

\* none of the extraction strategies (code fence, command label, command-verb
\* prefix, leading $ or #) finds a command in the text
NoStrategyFinds(text) ==
    \/ ~ExtractedCommand(text, command_match(text)).has
    \/ ExtractedCommand(text, command_match(text)).command = <<>>

\* C24 as stated: for a free-text reply in which none of the extraction
\* strategies finds a command, the command returned is the empty string.
C24_NoExtractionGivesEmptyCommand ==
    (pc = "Normalized" /\ response.kind = "text" /\ NoStrategyFinds(response.content))
        => Get(result, "command", <<>>) = <<>>

\* the call failed, or the reply holds no command: no message content, a JSON
\* object without a command, a text in which no strategy finds one
NoUsableCommand(reply) ==
    \/ reply.kind \in {"error", "no_content"}
    \/ reply.kind = "json" /\ Get(reply.content, "command", <<>>) = <<>>
    \/ reply.kind = "text" /\ NoStrategyFinds(reply.content)

\* C23 as stated: when the oracle call failed or its reply holds no usable
\* command, the result of get_command_for_task has an empty command, and the
\* turn executes nothing, calls the oracle no second time, reports the error
\* and is back at Idle.
C23_NoCommandEndsTurn ==
    (route \in OracleBranches /\ response # NoResponse /\ NoUsableCommand(response)) =>
        /\ Get(result, "command", <<>>) = <<>>
        /\ pc = "Idle"
        /\ \A i \in DOMAIN events : events[i].op \notin ExecOps
        /\ Cardinality({i \in DOMAIN events : events[i].op = "oracle"}) <= 1
        /\ ~TurnCut => \E i \in DOMAIN events : events[i].op = "show_error"

\* ------------------------------------------------------------------------
\* The analysis of a single execution (Spec)
\* ------------------------------------------------------------------------

\* the positions in events of the single execution of the proposed command
SingleExecs ==
    {i \in DOMAIN events : events[i].op = "execute_command" /\ events[i].step = 0}

\* C25: on the oracle route the proposed command is executed at most once;
\* when it ran captured, the explanation oracle is called exactly once, right
\* after the child ended and whatever its exit code, with the command and the
\* stdout and stderr returned for it; when it ran on the terminal, the
\* explanation oracle is not called at all.
C25_SingleExecutionAnalyzedOnce ==
    route = "oracle" =>
        /\ Cardinality(SingleExecs) <= 1
        /\ Cardinality(AnalyzeCalls) <= 1
        /\ \A c \in AnalyzeCalls :
               /\ c - 1 \in SingleExecs
               /\ events[c - 1].arg = "pipe"
               /\ events[c - 1].cmd = Proposed
               /\ analyze_args = [command |-> Proposed, stdout |-> returned.stdout,
                                  stderr |-> returned.stderr]
        /\ \A e \in SingleExecs :
               /\ events[e].arg = "tty" => AnalyzeCalls = {}
               /\ (events[e].arg = "pipe" /\ pc = "Idle" /\ ~TurnCut) => AnalyzeCalls = {e + 1}

\* a captured single execution failed and its output was sent for analysis,
\* once, and the loop is back at Idle
C25_Witness ==
    /\ route = "oracle"
    /\ pc = "Idle"
    /\ ~TurnCut
    /\ returned.return_code # 0
    /\ returned.stderr # <<>>
    /\ Cardinality(AnalyzeCalls) = 1
    /\ analyze_args.stderr = returned.stderr
    /\ events[Len(events)].op = "show_result"

\* ------------------------------------------------------------------------
\* execute_file_editor (Spec)
\* ------------------------------------------------------------------------

sudo_mkdir == <<"s","u","d","o"," ","m","k","d","i","r">>
sudo_touch == <<"s","u","d","o"," ","t","o","u","c","h"," ">>

\* C26 as stated: execute_file_editor answers a failed creation of the parent
\* directory with a privileged directory creation and a denied creation of
\* the file with a privileged one, and in these cases, as for a file that is
\* not writable, it goes on to run the editor on the terminal.
C26_EditorRunsAfterEveryEscalation ==
    /\ \A i \in DOMAIN events :
           (events[i].op = "show_error" /\ events[i].arg = "mkdir_fails") =>
               \E j \in (i + 1)..Len(events) :
                   /\ events[j].op \in ExecOps
                   /\ StartsWith(events[j].cmd, sudo_mkdir)
                   /\ \E k \in (j + 1)..Len(events) : events[k].op = "execute_file_editor"
    /\ \A i \in DOMAIN events :
           (events[i].op = "os_system" /\ StartsWith(events[i].cmd, sudo_touch)) =>
               /\ i < Len(events)
               /\ events[i + 1].op = "execute_file_editor"
    /\ \A i \in DOMAIN events :
           events[i].op = "execute_file_editor" => events[i].arg = "tty"

\* ------------------------------------------------------------------------
\* The safety verdict as a function of the command and the two lists
\* ------------------------------------------------------------------------

\* some configured blocked token matches the command
SomeTokenHits(c) ==
    \E k \in 1..Len(security.blocked_commands) : TokenHit(c, security.blocked_commands[k])

\* some configured confirm pattern occurs in the command
SomePatternOccurs(c) ==
    \E k \in 1..Len(security.confirm_patterns) : Contains(c, security.confirm_patterns[k])

\* C27: the verdict of is_command_safe is safe, with an empty reason, exactly
\* when no blocked token matches the trimmed command (equality, or the token
\* and a space as a prefix) and no confirm pattern occurs in it as a
\* substring; when a blocked token matches the reason is a blocked-command
\* one, also when a confirm pattern occurs as well; otherwise it is a
\* confirm-pattern one.
C27_VerdictIsFunctionOfLists ==
    pc = "Classified" =>
        /\ ~needs_confirmation <=> (~SomeTokenHits(command) /\ ~SomePatternOccurs(command))
        /\ ~needs_confirmation => unsafe_reason = <<>>
        /\ SomeTokenHits(command) =>
               \E k \in 1..Len(security.blocked_commands) :
                   /\ TokenHit(command, security.blocked_commands[k])
                   /\ unsafe_reason = BlockedReason(security.blocked_commands[k])
        /\ (~SomeTokenHits(command) /\ SomePatternOccurs(command)) =>
               \E k \in 1..Len(security.confirm_patterns) :
                   /\ Contains(command, security.confirm_patterns[k])
                   /\ unsafe_reason = PatternReason(security.confirm_patterns[k])

\* a command that matches a blocked token and holds a confirm pattern has been
\* classified, and the reason is the blocked-command one
C27_Witness ==
    /\ pc = "Classified"
    /\ SomeTokenHits(command)
    /\ SomePatternOccurs(command)
    /\ needs_confirmation
    /\ \E k \in 1..Len(security.blocked_commands) :
           unsafe_reason = BlockedReason(security.blocked_commands[k])
    /\ \A k \in 1..Len(security.confirm_patterns) :
           unsafe_reason # PatternReason(security.confirm_patterns[k])

\* ------------------------------------------------------------------------
\* The steps of a decomposed command and the terminal path
\* ------------------------------------------------------------------------

\* the positions of events at which a step of the sequence was handed to
\* execute_command
StepExecs == {i \in DOMAIN events : events[i].op = "execute_command" /\ events[i].step > 0}

\* C28: no step of a decomposed sequence runs on the terminal-attached path:
\* the command that was decomposed is not interactive, every step handed to
\* execute_command is classified non-interactive by _is_interactive_command
\* and runs with pipes, and the child of a step has a timeout.
C28_NoSequenceStepOnTerminal ==
    /\ \A i \in StepExecs :
           /\ route = "sequence"
           /\ ~_is_interactive_command(Proposed)
           /\ ~_is_interactive_command(events[i].cmd)
           /\ events[i].arg = "pipe"
    /\ pc = "SeqExec" => (child.via = "pipe" /\ child.timeout > 0)

\* the second step of an accepted decomposition is running with pipes and
\* under a timeout
C28_Witness ==
    /\ pc = "SeqExec"
    /\ route = "sequence"
    /\ step = 2
    /\ Len(commands) > 1
    /\ child.cmd = commands[2]
    /\ child.via = "pipe"
    /\ child.timeout > 0
    /\ Cardinality(StepExecs) = 2

\* ------------------------------------------------------------------------
\* The verdict for a command and the verdicts for its steps
\* ------------------------------------------------------------------------

\* C29 as stated: when is_command_safe returns safe for a command, it returns
\* safe for each step _split_complex_command makes of it.
C29_SafeWholeHasSafeSteps ==
    (pc = "Classified" /\ ~needs_confirmation) =>
        \A k \in 1..Len(_split_complex_command(command)) :
            is_command_safe(security, _split_complex_command(command)[k]).safe

\* ------------------------------------------------------------------------
\* execute_multiple_commands (SpecMultiple)
\* ------------------------------------------------------------------------

\* C30: execute_multiple_commands runs the commands in their order and asks
\* nothing; no command is run after one that ended with a non-zero exit code;
\* and the list returned holds, in order, one tuple for each command up to and
\* including the first that failed, or for every command when none failed.
C30_BatchStopsAtFirstFailure ==
    /\ \A i \in DOMAIN events :
           /\ events[i].op = "execute_command"
           /\ i <= Len(commands)
           /\ events[i].cmd = commands[i]
           /\ \A j \in 1..(i - 1) : j \in DOMAIN results /\ results[j].return_code = 0
    /\ pc = "Returned" =>
           /\ Len(results) = Len(events)
           /\ \A k \in DOMAIN results : results[k].cmd = commands[k]
           /\ \A k \in 1..(Len(results) - 1) : results[k].return_code = 0
           /\ IF \E k \in DOMAIN results : results[k].return_code # 0
              THEN results[Len(results)].return_code # 0
              ELSE Len(results) = Len(commands)

\* a list of three commands whose second failed has been returned from: two
\* tuples, the third command never handed to execute_command
C30_Witness ==
    /\ pc = "Returned"
    /\ Len(commands) = 3
    /\ Len(results) = 2
    /\ results[1].return_code = 0
    /\ results[2].return_code # 0
    /\ Len(events) = 2

====
